---- MODULE Spec2Model ----
(***************************************************************************)
(* State-machine model of the CoderComm mock API server (server.js, kept   *)
(* in src/README.md from line 65 on).  The store `db` is five in-memory    *)
(* tables; every HTTP handler is one atomic action that reads the tables,  *)
(* possibly mutates them and produces a response.                          *)
(***************************************************************************)
EXTENDS Integers, Sequences, FiniteSets

\* ------------------------------------------------------------------ bounds
\* Rows the handlers may create in all tables together (uuidv4 calls).
MaxRows == 3
\* Latest clock reading; stamps are 0..MaxClock.
MaxClock == 1
\* Largest `limit` query parameter a client sends.
MaxLimit == 2

\* Listing requests that may be suspended at an await at the same time.
MaxInFlight == 1
\* Mutating requests that may be suspended at an await at the same time.
MaxWriters == 2

\* ------------------------------------------------------- program constants
\* `const { cursor, limit = 5 }` of the three cursor listings
DefaultLimit == 5

\* `const { page = 0, limit = 10 }` of the user listing
DefaultPage == 0
DefaultUsersLimit == 10

\* --------------------------------------------------------------- universes
\* uuidv4() values: the k-th row ever created in a table gets <<table, k>>.
Id(kind, k) == <<kind, k>>
\* An id no table ever holds (a stale cursor, a deleted or mistyped target).
GhostId == Id("ghost", 0)
\* A query parameter / body field that is not supplied (for `cursor` also the
\* empty string, which `if (cursor)` treats alike).
Absent == <<>>
\* The `limit` query parameter when it is not supplied.
NoLimit == -1
\* `null` in a response body.
Null == <<>>

\* The `page` query parameter when it is not supplied.
NoPage == -1

\* An id a client makes up and sends in a request body.
ChosenId == Id("chosen", 0)

\* The password every user of the model registers with, and a wrong one.
Pass == "secret"
Passwords == {Pass, "wrong"}
Emails == {"a@x", "b@x", "c@x"}
\* Request bodies: "" is a missing/empty field, " " is blank text.
EmailInputs == Emails \cup {"not-an-email"}
Emojis == {"like", "love"}
EmojiInputs == Emojis \cup {""}
Contents == {"", " ", "text"}
Actions == {"ACCEPT", "DECLINE", "accept"}
TargetTypes == {"POST", "COMMENT", "USER"}
VARIABLES users, posts, comments, reactions, friendships,
          reactionSeq, friendshipSeq, resp, inflight

db == <<users, posts, comments, reactions, friendships>>
vars == <<users, posts, comments, reactions, friendships,
          reactionSeq, friendshipSeq, resp, inflight>>

\* ------------------------------------------------------------ small helpers
Range(s) == {s[i] : i \in DOMAIN s}
Min(a, b) == IF a < b THEN a ELSE b
SetMax(S) == IF S = {} THEN 0 ELSE CHOOSE x \in S : \A y \in S : y <= x

\* Array.prototype.findIndex, 1-based; 0 stands for JavaScript's -1.
\* `found` is the set of elements the callback accepts.
FindIndex(s, found) ==
  IF \E i \in DOMAIN s : s[i] \in found
  THEN CHOOSE i \in DOMAIN s : s[i] \in found /\ \A j \in 1..(i - 1) : s[j] \notin found
  ELSE 0

\* Array.prototype.splice(index, 1) with a 1-based index.
RemoveAt(s, i) == SubSeq(s, 1, i - 1) \o SubSeq(s, i + 1, Len(s))

\* Array.prototype.slice(start, end) with 0-based start/end, end exclusive.
Slice(s, start, end) == SubSeq(s, start + 1, Min(end, Len(s)))

UserIds == {u._id : u \in Range(users)}
PostIds == {p._id : p \in Range(posts)}
CommentIds == {c._id : c \in Range(comments)}

\* findUser: db.users.find((u) => u._id === userId) is defined (truthy).
UserExists(userId) == \E i \in DOMAIN users : users[i]._id = userId
\* findUser where it is defined.
findUser(userId) == users[FindIndex(users, {u \in Range(users) : u._id = userId})]

\* new Date(): the wall clock read by a creating handler.  It never runs
\* backwards past a stamp already stored; two requests may share a reading.
LastStamp ==
  SetMax({p.createdAt : p \in Range(posts)} \cup {c.createdAt : c \in Range(comments)})
Stamps == LastStamp..MaxClock


\* ------------------------------------------------------------- responses
\* generateApiResponse: status and, for a listing, the data block.  A response
\* without a data block (an error, a mutation) carries the empty values.
\* `saved` records whether the handler called saveToStorage().
Response(op, status, saved) ==
  [op |-> op, status |-> status, saved |-> saved,
   items |-> <<>>, hasMore |-> FALSE, nextCursor |-> Null]

Listing(op, items, hasMore, nextCursor) ==
  [op |-> op, status |-> 200, saved |-> FALSE,
   items |-> items, hasMore |-> hasMore, nextCursor |-> nextCursor]

\* extractJWT: the payload, or null for a missing or unverifiable token
\* (jwtVerify also rejects a token past its exp).
extractJWT(token) == IF token.kind = "valid" THEN [_id |-> token._id] ELSE Null

\* A codercomm-access-token cookie is absent ("none"), fails jwtVerify
\* ("forged"), is past its exp ("expired") or is one the server signed for
\* user _id ("valid").
\* withAuth: `!payload || payload.exp < Date.now() / 1000` is answered 401 and
\* the resolver does not run.
Authorized(token) == token.kind = "valid"
Unauthorized(op) == Response(op, 401, FALSE)

\* The tokens a client can present: the server signs one per existing user.
Tokens ==
  [kind : {"none", "forged", "expired"}, _id : {GhostId}]
    \cup [kind : {"valid"}, _id : UserIds]

\* --------------------------------------------------------- feed selection
\* Mutant: an insertion that puts an item ahead of the equals scanned before it.
InsertDescUnstable(x, t) ==
  LET k == Cardinality({i \in DOMAIN t : t[i].createdAt > x.createdAt})
  IN  SubSeq(t, 1, k) \o <<x>> \o SubSeq(t, k + 1, Len(t))

\* Array.prototype.sort with (a, b) => new Date(b.createdAt) - new Date(a.createdAt):
\* a stable sort, newest first.  Insertion keeps earlier-scanned equals ahead.
InsertDesc(x, t) ==
  LET k == Cardinality({i \in DOMAIN t : t[i].createdAt >= x.createdAt})
  IN  SubSeq(t, 1, k) \o <<x>> \o SubSeq(t, k + 1, Len(t))

\* Mutant: the candidates are left in scan order.
SortNone(s) == s

RECURSIVE SortDesc(_)
SortDesc(s) ==
  IF s = <<>> THEN <<>>
  ELSE InsertDesc(s[Len(s)], SortDesc(SubSeq(s, 1, Len(s) - 1)))

\* GET /api/posts: friendPosts, currentUserPosts, feedPosts (sorted).
friendPosts(currentUserId) ==
  SelectSeq(posts, LAMBDA p :
    \E i \in DOMAIN friendships :
      \/ friendships[i].from = currentUserId /\ friendships[i].to = p.author
      \/ friendships[i].to = currentUserId /\ friendships[i].from = p.author)

currentUserPosts(currentUserId) ==
  SelectSeq(posts, LAMBDA p : p.author = currentUserId)

feedPosts(currentUserId) ==
  SortDesc(friendPosts(currentUserId) \o currentUserPosts(currentUserId))

\* GET /api/posts/user/:userId: userPosts (sorted).
userPosts(userId) == SortDesc(SelectSeq(posts, LAMBDA p : p.author = userId))

\* GET /api/posts/:postId/comments: postComments (sorted).
postComments(postId) == SortDesc(SelectSeq(comments, LAMBDA c : c.post = postId))


\* ------------------------------------------------------------- pagination
\* cursorPaginationSchema: limit is a number >= 1 when supplied (else 422);
\* `limit = 5` when it is not.
\* Mutant: the schema accepts a limit of 0.
LimitValidFromZero(limit) == limit = NoLimit \/ limit >= 0
LimitValid(limit) == limit = NoLimit \/ limit >= 1
EffectiveLimit(limit) == IF limit = NoLimit THEN DefaultLimit ELSE limit

\* Mutant: the page starts at the cursor item itself.
startIndexAtCursor(seq, cursor) ==
  LET cursorIndex == FindIndex(seq, {p \in Range(seq) : p._id = cursor})
  IN  IF cursor # Absent /\ cursorIndex # 0 THEN cursorIndex - 1 ELSE 0

\* Mutant: an unknown cursor is taken for the end of the sequence.
startIndexStaleAtEnd(seq, cursor) ==
  LET cursorIndex == FindIndex(seq, {p \in Range(seq) : p._id = cursor})
  IN  IF cursor = Absent THEN 0
      ELSE IF cursorIndex # 0 THEN cursorIndex ELSE Len(seq)

\* let startIndex = 0; if (cursor) { cursorIndex = findIndex(...);
\*   if (cursorIndex !== -1) startIndex = cursorIndex + 1 }
startIndex(seq, cursor) ==
  LET cursorIndex == FindIndex(seq, {p \in Range(seq) : p._id = cursor})
  IN  IF cursor # Absent /\ cursorIndex # 0 THEN cursorIndex ELSE 0

endIndex(seq, cursor, limit) == startIndex(seq, cursor) + limit

\* seq.slice(startIndex, endIndex)
AfterCursor(seq, cursor, limit) ==
  Slice(seq, startIndex(seq, cursor), endIndex(seq, cursor, limit))

\* Mutant: hasMore compares the count with the limit, not with endIndex.
hasMoreIgnoringStart(seq, cursor, limit) == Len(seq) - limit > 0

\* Mutant: hasMore also when the page ends exactly at the last candidate.
hasMoreInclusive(seq, cursor, limit) == Len(seq) - endIndex(seq, cursor, limit) >= 0

\* const hasMore = count - endIndex > 0
hasMore(seq, cursor, limit) == Len(seq) - endIndex(seq, cursor, limit) > 0

\* ------------------------------------------------------------- enrichment
\* db.reactions.filter((r) => r.targetType === T && r.targetId === id)
reactionsOf(targetType, targetId) ==
  SelectSeq(reactions, LAMBDA r : r.targetType = targetType /\ r.targetId = targetId)

\* { ...r, author: { _id: author._id, ... } }: reading author._id of a user
\* that db.users.find did not find throws a TypeError.
reactionsWithAuthor(targetType, targetId) ==
  LET rs == reactionsOf(targetType, targetId)
  IN  [i \in DOMAIN rs |-> [_id |-> rs[i]._id, emoji |-> rs[i].emoji,
                            author |-> rs[i].author]]

EnrichThrows(targetType, item) ==
  \/ ~UserExists(item.author)
  \/ \E r \in Range(reactionsOf(targetType, item._id)) : ~UserExists(r.author)

\* Mutant: the listed post keeps the commentCount stored at its creation.
postWithDetailsStoredCount(post) ==
  [_id |-> post._id, author |-> post.author, createdAt |-> post.createdAt,
   commentCount |-> 0,
   reactions |-> reactionsWithAuthor("POST", post._id)]

postWithDetails(post) ==
  [_id |-> post._id, author |-> post.author, createdAt |-> post.createdAt,
   commentCount |-> Len(SelectSeq(comments, LAMBDA c : c.post = post._id)),
   reactions |-> reactionsWithAuthor("POST", post._id)]

commentWithDetails(comment) ==
  [_id |-> comment._id, author |-> comment.author, createdAt |-> comment.createdAt,
   post |-> comment.post,
   reactions |-> reactionsWithAuthor("COMMENT", comment._id)]

\* The .map callback of the handler: post details or comment details.
withDetails(targetType, item) ==
  IF targetType = "COMMENT" THEN commentWithDetails(item) ELSE postWithDetails(item)

\* Mutant: nextCursor is read off the last page item whether or not hasMore.
PageResponseCursorAlways(op, targetType, seq, cursor, limit) ==
  LET page == AfterCursor(seq, cursor, limit)
      more == hasMore(seq, cursor, limit)
  IN  IF \E i \in DOMAIN page : EnrichThrows(targetType, page[i])
      THEN Response(op, 500, FALSE)
      ELSE IF page = <<>>
      THEN Response(op, 500, FALSE)
      ELSE Listing(op, [i \in DOMAIN page |-> withDetails(targetType, page[i])], more,
                   page[Len(page)]._id)

\* The tail shared by the three listing handlers: slice, enrich, respond.
\* catchError turns a thrown TypeError into a 500 response.
PageResponse(op, targetType, seq, cursor, limit) ==
  LET page == AfterCursor(seq, cursor, limit)
      more == hasMore(seq, cursor, limit)
  IN  IF \E i \in DOMAIN page : EnrichThrows(targetType, page[i])
      THEN Response(op, 500, FALSE)
      ELSE IF more /\ page = <<>>
      THEN Response(op, 500, FALSE)
      ELSE Listing(op, [i \in DOMAIN page |-> withDetails(targetType, page[i])], more,
                   IF more THEN page[Len(page)]._id ELSE Null)

\* GET /api/posts
GetPostsResponse(token, cursor, limit) ==
  IF ~Authorized(token) THEN Unauthorized("getPosts")
  ELSE IF ~LimitValid(limit) THEN Response("getPosts", 422, FALSE)
  ELSE PageResponse("getPosts", "POST", feedPosts(extractJWT(token)._id),
                    cursor, EffectiveLimit(limit))

\* GET /api/posts/user/:userId
GetUserPostsResponse(token, userId, cursor, limit) ==
  IF ~Authorized(token) THEN Unauthorized("getUserPosts")
  ELSE IF ~LimitValid(limit) THEN Response("getUserPosts", 422, FALSE)
  ELSE IF ~UserExists(userId) THEN Response("getUserPosts", 404, FALSE)
  ELSE PageResponse("getUserPosts", "POST", userPosts(userId),
                    cursor, EffectiveLimit(limit))

\* GET /api/posts/:postId/comments
GetCommentsResponse(token, postId, cursor, limit) ==
  IF ~Authorized(token) THEN Unauthorized("getComments")
  ELSE IF ~LimitValid(limit) THEN Response("getComments", 422, FALSE)
  ELSE PageResponse("getComments", "COMMENT", postComments(postId),
                    cursor, EffectiveLimit(limit))


\* ------------------------------------------------------------------ Init
\* initializeDatabase(): the tables of data.json; every row besides the seed
\* users is created by a handler.
\* A data.json that holds two users and no other rows.
SeedUsers ==
  << [_id |-> Id("user", 1), email |-> "a@x", password |-> Pass],
     [_id |-> Id("user", 2), email |-> "b@x", password |-> Pass] >>

\* Rows created since start-up; a creating handler runs only below MaxRows.
Rows == (Len(users) - Len(SeedUsers)) + Len(posts) + Len(comments)
          + reactionSeq + friendshipSeq
CanCreate == Rows < MaxRows

Init ==
  /\ users = SeedUsers
  /\ posts = <<>>
  /\ comments = <<>>
  /\ reactions = <<>>
  /\ friendships = <<>>
  /\ reactionSeq = 0
  /\ friendshipSeq = 0
  /\ resp = Response("init", 0, FALSE)
  /\ inflight = {}

\* A data.json edited by hand or left by another version of the server: rows
\* may name an author (GhostId) that the user table does not hold.
SeedAuthors == {Id("user", 1), GhostId}

SeedInit ==
  /\ users = SeedUsers
  /\ posts \in {<<>>} \cup
       {<<[_id |-> Id("post", 1), author |-> a, createdAt |-> 0]>> : a \in SeedAuthors}
  /\ comments \in {<<>>} \cup
       {<<[_id |-> Id("comment", 1), post |-> Id("post", 1), author |-> a,
           createdAt |-> 0]>> : a \in SeedAuthors}
  /\ reactions \in {<<>>} \cup
       {<<[_id |-> Id("reaction", 1), targetType |-> tt[1], targetId |-> tt[2],
           emoji |-> "like", author |-> a]>> :
          tt \in {<<"POST", Id("post", 1)>>, <<"COMMENT", Id("comment", 1)>>},
          a \in SeedAuthors}
  /\ friendships \in {<<>>,
       <<[_id |-> Id("friendship", 1), from |-> Id("user", 1), to |-> GhostId,
          status |-> "ACCEPTED"]>>}
  /\ reactionSeq = Len(reactions)
  /\ friendshipSeq = Len(friendships)
  /\ resp = Response("init", 0, FALSE)
  /\ inflight = {}

\* ------------------------------------------------------- listing handlers
GetPosts(token, cursor, limit) ==
  /\ resp' = GetPostsResponse(token, cursor, limit)
  /\ UNCHANGED <<db, reactionSeq, friendshipSeq>>

GetUserPosts(token, userId, cursor, limit) ==
  /\ resp' = GetUserPostsResponse(token, userId, cursor, limit)
  /\ UNCHANGED <<db, reactionSeq, friendshipSeq>>

\* Mutant: the handler sorts db.comments itself instead of a filtered copy.
GetCommentsSortInPlace(token, postId, cursor, limit) ==
  /\ resp' = GetCommentsResponse(token, postId, cursor, limit)
  /\ comments' = SortDesc(comments)
  /\ UNCHANGED <<users, posts, reactions, friendships, reactionSeq, friendshipSeq>>

GetComments(token, postId, cursor, limit) ==
  /\ resp' = GetCommentsResponse(token, postId, cursor, limit)
  /\ UNCHANGED <<db, reactionSeq, friendshipSeq>>

\* ------------------------------------------------- other read handlers
\* The `name` search parameter of the friend and request listings is not
\* sent: the rows of the model carry no name.
\* GET /api/friends: the users on the other end of the caller's ACCEPTED edges.
friendIds(currentUserId) ==
  LET mine == SelectSeq(friendships, LAMBDA f :
                f.status = "ACCEPTED" /\ (f.from = currentUserId \/ f.to = currentUserId))
  IN  [i \in DOMAIN mine |->
         IF mine[i].from = currentUserId THEN mine[i].to ELSE mine[i].from]

GetFriendsResponse(token) ==
  IF ~Authorized(token) THEN Unauthorized("getFriends")
  ELSE LET ids == Range(friendIds(extractJWT(token)._id))
       IN  Listing("getFriends", SelectSeq(users, LAMBDA u : u._id \in ids), FALSE, Null)

GetFriends(token) ==
  /\ resp' = GetFriendsResponse(token)
  /\ UNCHANGED <<db, reactionSeq, friendshipSeq>>

\* populateFriendshipUsers: sender / receiver embedded, null when not found.
populateFriendshipUsers(friendship) ==
  [_id |-> friendship._id, from |-> friendship.from, to |-> friendship.to,
   status |-> friendship.status,
   sender |-> IF UserExists(friendship.from) THEN findUser(friendship.from)._id ELSE Null,
   receiver |-> IF UserExists(friendship.to) THEN findUser(friendship.to)._id ELSE Null]

incomingRaw(currentUserId) ==
  SelectSeq(friendships, LAMBDA fs : fs.to = currentUserId /\ fs.status = "PENDING")
outgoingRaw(currentUserId) ==
  SelectSeq(friendships, LAMBDA fs : fs.from = currentUserId /\ fs.status = "PENDING")

\* GET /api/friends/requests: data is { incoming, outgoing }.
GetRequestsResponse(token) ==
  IF ~Authorized(token) THEN Unauthorized("getRequests")
  ELSE LET me == extractJWT(token)._id
           incoming == incomingRaw(me)
           outgoing == outgoingRaw(me)
       IN  Listing("getRequests",
                   << [i \in DOMAIN incoming |-> populateFriendshipUsers(incoming[i])],
                      [i \in DOMAIN outgoing |-> populateFriendshipUsers(outgoing[i])] >>,
                   FALSE, Null)

GetRequests(token) ==
  /\ resp' = GetRequestsResponse(token)
  /\ UNCHANGED <<db, reactionSeq, friendshipSeq>>

\* GET /api/friends/requests/incoming: each request with its requester, the
\* row db.users.find returns (undefined, here Null, when there is none).
GetIncomingResponse(token) ==
  IF ~Authorized(token) THEN Unauthorized("getIncoming")
  ELSE LET rs == incomingRaw(extractJWT(token)._id)
       IN  Listing("getIncoming",
                   [i \in DOMAIN rs |->
                      [_id |-> rs[i]._id, from |-> rs[i].from, to |-> rs[i].to,
                       status |-> rs[i].status,
                       requester |-> IF UserExists(rs[i].from)
                                     THEN findUser(rs[i].from) ELSE Null]],
                   FALSE, Null)

GetIncoming(token) ==
  /\ resp' = GetIncomingResponse(token)
  /\ UNCHANGED <<db, reactionSeq, friendshipSeq>>

\* GET /api/friends/requests/outgoing: each request with its recipient.
GetOutgoingResponse(token) ==
  IF ~Authorized(token) THEN Unauthorized("getOutgoing")
  ELSE LET rs == outgoingRaw(extractJWT(token)._id)
       IN  Listing("getOutgoing",
                   [i \in DOMAIN rs |->
                      [_id |-> rs[i]._id, from |-> rs[i].from, to |-> rs[i].to,
                       status |-> rs[i].status,
                       recipient |-> IF UserExists(rs[i].to)
                                     THEN findUser(rs[i].to) ELSE Null]],
                   FALSE, Null)

GetOutgoing(token) ==
  /\ resp' = GetOutgoingResponse(token)
  /\ UNCHANGED <<db, reactionSeq, friendshipSeq>>

\* GET /api/users: offsetPaginationSchema (page min 0, limit min 1), then the
\* users other than the caller, sliced at page * limit.
GetUsersResponse(token, page, limit) ==
  IF ~Authorized(token) THEN Unauthorized("getUsers")
  ELSE IF ~(page = NoPage \/ page >= 0) \/ ~LimitValid(limit)
  THEN Response("getUsers", 422, FALSE)
  ELSE LET currentUserId == extractJWT(token)._id
           pg == IF page = NoPage THEN DefaultPage ELSE page
           lim == IF limit = NoLimit THEN DefaultUsersLimit ELSE limit
           start == pg * lim
       IN  Listing("getUsers",
                   Slice(SelectSeq(users, LAMBDA u : u._id # currentUserId),
                         start, start + lim),
                   FALSE, Null)

GetUsers(token, page, limit) ==
  /\ resp' = GetUsersResponse(token, page, limit)
  /\ UNCHANGED <<db, reactionSeq, friendshipSeq>>

\* const { password, ...userWithoutPassword } = user
WithoutPassword(user) == [_id |-> user._id, email |-> user.email]

\* POST /api/auth/login (not behind withAuth): loginSchema, then the user of
\* that email with that password, returned without the password.
LoginResponse(email, password) ==
  IF email \notin Emails THEN Response("login", 422, FALSE)
  ELSE IF ~\E u \in Range(users) : u.email = email /\ u.password = password
  THEN Response("login", 401, FALSE)
  ELSE LET user == users[FindIndex(users, {u \in Range(users) : u.email = email})]
       IN  Listing("login", <<WithoutPassword(user)>>, FALSE, Null)

Login(email, password) ==
  /\ resp' = LoginResponse(email, password)
  /\ UNCHANGED <<db, reactionSeq, friendshipSeq>>

\* GET /api/users/me: destructuring the undefined findUser result throws.
GetMeResponse(token) ==
  IF ~Authorized(token) THEN Unauthorized("getMe")
  ELSE IF ~UserExists(extractJWT(token)._id) THEN Response("getMe", 500, FALSE)
  ELSE Listing("getMe", <<WithoutPassword(findUser(extractJWT(token)._id))>>, FALSE, Null)

GetMe(token) ==
  /\ resp' = GetMeResponse(token)
  /\ UNCHANGED <<db, reactionSeq, friendshipSeq>>

\* Mutant: the handler is registered without withAuth (its resolver reads
\* nothing of the token).
GetUserResponseNoAuth(token, userId) ==
  IF ~UserExists(userId) THEN Response("getUser", 404, FALSE)
  ELSE Listing("getUser",
               <<[_id |-> userId, email |-> findUser(userId).email,
                  postCount |-> Cardinality({i \in DOMAIN posts : posts[i].author = userId})]>>,
               FALSE, Null)

\* GET /api/users/:userId: the user without password, with postCount.
GetUserResponse(token, userId) ==
  IF ~Authorized(token) THEN Unauthorized("getUser")
  ELSE IF ~UserExists(userId) THEN Response("getUser", 404, FALSE)
  ELSE Listing("getUser",
               <<[_id |-> userId, email |-> findUser(userId).email,
                  postCount |-> Cardinality({i \in DOMAIN posts : posts[i].author = userId})]>>,
               FALSE, Null)

GetUser(token, userId) ==
  /\ resp' = GetUserResponse(token, userId)
  /\ UNCHANGED <<db, reactionSeq, friendshipSeq>>

\* ------------------------------------------------------ mutating handlers
\* POST /api/auth/register
Register(email) ==
  IF email \notin Emails
  THEN /\ resp' = Response("register", 422, FALSE)
       /\ UNCHANGED <<db, reactionSeq, friendshipSeq>>
  ELSE IF \E u \in Range(users) : u.email = email
  THEN /\ resp' = Response("register", 400, FALSE)
       /\ UNCHANGED <<db, reactionSeq, friendshipSeq>>
  ELSE /\ CanCreate
       /\ users' = Append(users, [_id |-> Id("user", Len(users) + 1), email |-> email,
                                password |-> Pass])
       /\ resp' = Response("register", 200, TRUE)
       /\ UNCHANGED <<posts, comments, reactions, friendships,
                      reactionSeq, friendshipSeq>>

\* A JSON body of a profile update: `valid` tells whether it passes
\* updateUserSchema (strings, URLs where required); `_id` and `email` are the
\* values of an "_id" and an "email" key in it (Absent and "" when there is none).
\* yup's object schema neither rejects nor strips keys it does not declare,
\* so the validated input still carries these keys.
UpdateBodies ==
  [valid : BOOLEAN, _id : {Absent, ChosenId} \cup UserIds, email : {""} \cup Emails]

\* { ...currentUser, ...updateUserInput }
mergeUser(currentUser, updateUserInput) ==
  [currentUser EXCEPT
     !._id = IF updateUserInput._id = Absent THEN @ ELSE updateUserInput._id,
     !.email = IF updateUserInput.email = "" THEN @ ELSE updateUserInput.email]

\* PUT /api/users/me
UpdateMe(token, body) ==
  IF ~Authorized(token)
  THEN /\ resp' = Unauthorized("updateMe")
       /\ UNCHANGED <<db, reactionSeq, friendshipSeq>>
  ELSE IF ~body.valid
  THEN /\ resp' = Response("updateMe", 422, FALSE)
       /\ UNCHANGED <<db, reactionSeq, friendshipSeq>>
  ELSE LET currentUserId == extractJWT(token)._id
           currentUserIndex == FindIndex(users, {u \in Range(users) : u._id = currentUserId})
       IN  IF currentUserIndex = 0
           THEN /\ resp' = Response("updateMe", 404, FALSE)
                /\ UNCHANGED <<db, reactionSeq, friendshipSeq>>
           ELSE /\ users' = [users EXCEPT ![currentUserIndex] =
                               mergeUser(users[currentUserIndex], body)]
                /\ resp' = Response("updateMe", 200, TRUE)
                /\ UNCHANGED <<posts, comments, reactions, friendships,
                               reactionSeq, friendshipSeq>>

\* PUT /api/users/:userId
UpdateUser(token, userId, body) ==
  IF ~Authorized(token)
  THEN /\ resp' = Unauthorized("updateUser")
       /\ UNCHANGED <<db, reactionSeq, friendshipSeq>>
  ELSE LET currentUserId == extractJWT(token)._id
           userIndex == FindIndex(users, {u \in Range(users) : u._id = currentUserId})
       IN  IF currentUserId # userId
           THEN /\ resp' = Response("updateUser", 403, FALSE)
                /\ UNCHANGED <<db, reactionSeq, friendshipSeq>>
           ELSE IF userIndex = 0
           THEN /\ resp' = Response("updateUser", 404, FALSE)
                /\ UNCHANGED <<db, reactionSeq, friendshipSeq>>
           ELSE IF ~body.valid
           THEN /\ resp' = Response("updateUser", 422, FALSE)
                /\ UNCHANGED <<db, reactionSeq, friendshipSeq>>
           ELSE /\ users' = [users EXCEPT ![userIndex] = mergeUser(users[userIndex], body)]
                /\ resp' = Response("updateUser", 200, TRUE)
                /\ UNCHANGED <<posts, comments, reactions, friendships,
                               reactionSeq, friendshipSeq>>

\* POST /api/posts
CreatePost(token, content, now) ==
  IF ~Authorized(token) \/ ~UserExists(token._id)
  THEN /\ resp' = Response("createPost", 401, FALSE)
       /\ UNCHANGED <<db, reactionSeq, friendshipSeq>>
  ELSE IF content \in {"", " "}
  THEN /\ resp' = Response("createPost", 400, FALSE)
       /\ UNCHANGED <<db, reactionSeq, friendshipSeq>>
  ELSE /\ CanCreate
       /\ posts' = << [_id |-> Id("post", Len(posts) + 1),
                       author |-> findUser(token._id)._id,
                       createdAt |-> now] >> \o posts
       /\ resp' = Response("createPost", 200, TRUE)
       /\ UNCHANGED <<users, comments, reactions, friendships,
                      reactionSeq, friendshipSeq>>

\* Mutant: the comment is pushed and saved before the post is looked up.
CreateCommentPushFirst(token, postId, content, now) ==
  IF ~Authorized(token)
  THEN /\ resp' = Unauthorized("createComment")
       /\ UNCHANGED <<db, reactionSeq, friendshipSeq>>
  ELSE IF content = ""
  THEN /\ resp' = Response("createComment", 400, FALSE)
       /\ UNCHANGED <<db, reactionSeq, friendshipSeq>>
  ELSE IF ~UserExists(token._id)
  THEN /\ resp' = Response("createComment", 500, FALSE)
       /\ UNCHANGED <<db, reactionSeq, friendshipSeq>>
  ELSE /\ CanCreate
       /\ comments' = Append(comments,
                             [_id |-> Id("comment", Len(comments) + 1),
                              post |-> postId,
                              author |-> findUser(token._id)._id,
                              createdAt |-> now])
       /\ resp' = IF postId \notin PostIds
                  THEN Response("createComment", 404, TRUE)
                  ELSE Response("createComment", 200, TRUE)
       /\ UNCHANGED <<users, posts, reactions, friendships,
                      reactionSeq, friendshipSeq>>

\* Mutant: a new comment also stamps the post it is attached to.
CreateCommentTouchingPost(token, postId, content, now) ==
  IF ~Authorized(token)
  THEN /\ resp' = Unauthorized("createComment")
       /\ UNCHANGED <<db, reactionSeq, friendshipSeq>>
  ELSE IF content = "" \/ postId \notin PostIds \/ ~UserExists(token._id)
  THEN /\ resp' = Response("createComment", 400, FALSE)
       /\ UNCHANGED <<db, reactionSeq, friendshipSeq>>
  ELSE /\ CanCreate
       /\ comments' = Append(comments,
                             [_id |-> Id("comment", Len(comments) + 1),
                              post |-> postId,
                              author |-> findUser(token._id)._id,
                              createdAt |-> now])
       /\ posts' = [i \in DOMAIN posts |->
                     IF posts[i]._id = postId
                     THEN [posts[i] EXCEPT !.createdAt = now] ELSE posts[i]]
       /\ resp' = Response("createComment", 200, TRUE)
       /\ UNCHANGED <<users, reactions, friendships, reactionSeq, friendshipSeq>>

\* POST /api/posts/:postId/comments
CreateComment(token, postId, content, now) ==
  IF ~Authorized(token)
  THEN /\ resp' = Unauthorized("createComment")
       /\ UNCHANGED <<db, reactionSeq, friendshipSeq>>
  ELSE IF content = ""
  THEN /\ resp' = Response("createComment", 400, FALSE)
       /\ UNCHANGED <<db, reactionSeq, friendshipSeq>>
  ELSE IF postId \notin PostIds
  THEN /\ resp' = Response("createComment", 404, FALSE)
       /\ UNCHANGED <<db, reactionSeq, friendshipSeq>>
  ELSE IF ~UserExists(token._id)
  THEN /\ resp' = Response("createComment", 500, FALSE)
       /\ UNCHANGED <<db, reactionSeq, friendshipSeq>>
  ELSE /\ CanCreate
       /\ comments' = Append(comments,
                             [_id |-> Id("comment", Len(comments) + 1),
                              post |-> postId,
                              author |-> findUser(token._id)._id,
                              createdAt |-> now])
       /\ resp' = Response("createComment", 200, TRUE)
       /\ UNCHANGED <<users, posts, reactions, friendships,
                      reactionSeq, friendshipSeq>>


\* Mutant: the lookup only sees reactions whose emoji is "like".
existingReactionIndexByEmoji(targetType, targetId, author) ==
  FindIndex(reactions, {r \in Range(reactions) :
    r.targetType = targetType /\ r.targetId = targetId /\ r.author = author
      /\ r.emoji = "like"})

\* POST /api/reactions: the upsert keyed by (targetType, targetId, author).
existingReactionIndex(targetType, targetId, author) ==
  FindIndex(reactions, {r \in Range(reactions) :
    r.targetType = targetType /\ r.targetId = targetId /\ r.author = author})

\* Mutant: a changed emoji drops the old row and pushes a new one.
upsertReactionReplace(author, targetType, targetId, emoji) ==
  LET i == existingReactionIndex(targetType, targetId, author)
      row == [_id |-> Id("reaction", reactionSeq + 1),
              targetType |-> targetType, targetId |-> targetId,
              emoji |-> emoji, author |-> author]
  IN  IF i > 0
      THEN IF reactions[i].emoji = emoji
           THEN RemoveAt(reactions, i)
           ELSE Append(RemoveAt(reactions, i), row)
      ELSE Append(reactions, row)

\* The table after the upsert of `emoji` by `author` on the target: splice on
\* the same emoji, in-place emoji update on another, push of a new row else.
upsertReaction(author, targetType, targetId, emoji) ==
  LET i == existingReactionIndex(targetType, targetId, author)
  IN  IF i > 0
      THEN IF reactions[i].emoji = emoji
           THEN RemoveAt(reactions, i)
           ELSE [reactions EXCEPT ![i].emoji = emoji]
      ELSE Append(reactions,
             [_id |-> Id("reaction", reactionSeq + 1),
              targetType |-> targetType, targetId |-> targetId,
              emoji |-> emoji, author |-> author])

React(token, targetType, targetId, emoji) ==
  IF ~Authorized(token)
  THEN /\ resp' = Unauthorized("react")
       /\ UNCHANGED <<db, reactionSeq, friendshipSeq>>
  ELSE IF targetType \notin {"POST", "COMMENT"} \/ targetId = Absent \/ emoji = ""
  THEN /\ resp' = Response("react", 400, FALSE)
       /\ UNCHANGED <<db, reactionSeq, friendshipSeq>>
  ELSE IF ~UserExists(token._id)
  THEN /\ resp' = Response("react", 500, FALSE)
       /\ UNCHANGED <<db, reactionSeq, friendshipSeq>>
  ELSE LET author == findUser(token._id)._id
           created == existingReactionIndex(targetType, targetId, author) = 0
       IN  /\ created => CanCreate
           /\ reactions' = upsertReaction(author, targetType, targetId, emoji)
           /\ reactionSeq' = IF created THEN reactionSeq + 1 ELSE reactionSeq
           /\ resp' = Response("react", 200, TRUE)
           /\ UNCHANGED <<users, posts, comments, friendships, friendshipSeq>>

\* Mutant: only an edge the caller sent counts as existing.
existingFriendshipOneWay(currentUserId, targetUserId) ==
  FindIndex(friendships, {fs \in Range(friendships) :
    fs.from = currentUserId /\ fs.to = targetUserId})

\* POST /api/friends/requests
\* db.friendships.find: an edge between the two users, in either direction.
existingFriendship(currentUserId, targetUserId) ==
  FindIndex(friendships, {fs \in Range(friendships) :
    \/ fs.from = currentUserId /\ fs.to = targetUserId
    \/ fs.to = currentUserId /\ fs.from = targetUserId})

\* Mutant: the handler does not compare the target with the caller.
sendRequestStatusNoSelfCheck(currentUserId, targetUserId) ==
  IF existingFriendship(currentUserId, targetUserId) = 0 THEN 200 ELSE 400

\* The status the handler answers a request of an authorized caller with.
sendRequestStatus(currentUserId, targetUserId) ==
  IF targetUserId = currentUserId THEN 400
  ELSE IF existingFriendship(currentUserId, targetUserId) = 0 THEN 200
  ELSE 400

SendRequest(token, targetUserId) ==
  IF ~Authorized(token)
  THEN /\ resp' = Unauthorized("sendRequest")
       /\ UNCHANGED <<db, reactionSeq, friendshipSeq>>
  ELSE LET currentUserId == extractJWT(token)._id
       IN  IF sendRequestStatus(currentUserId, targetUserId) # 200
           THEN /\ resp' = Response("sendRequest", 400, FALSE)
                /\ UNCHANGED <<db, reactionSeq, friendshipSeq>>
           ELSE /\ CanCreate
                /\ friendshipSeq' = friendshipSeq + 1
                /\ friendships' = Append(friendships,
                     [_id |-> Id("friendship", friendshipSeq + 1),
                      from |-> currentUserId, to |-> targetUserId,
                      status |-> "PENDING"])
                /\ resp' = Response("sendRequest", 200, TRUE)
                /\ UNCHANGED <<users, posts, comments, reactions, reactionSeq>>

\* Mutant: DECLINE marks the edge instead of splicing it out.
RespondRequestSoftDecline(token, requesterId, action) ==
  IF ~Authorized(token)
  THEN /\ resp' = Unauthorized("respondRequest")
       /\ UNCHANGED <<db, reactionSeq, friendshipSeq>>
  ELSE LET currentUserId == extractJWT(token)._id
           requestIndex == FindIndex(friendships, {fs \in Range(friendships) :
                             fs.from = requesterId /\ fs.to = currentUserId
                               /\ fs.status = "PENDING"})
       IN  IF requestIndex = 0
           THEN /\ resp' = Response("respondRequest", 404, FALSE)
                /\ UNCHANGED <<db, reactionSeq, friendshipSeq>>
           ELSE IF action \in {"ACCEPT", "DECLINE"}
           THEN /\ friendships' = [friendships EXCEPT ![requestIndex].status =
                                     IF action = "ACCEPT" THEN "ACCEPTED" ELSE "DECLINED"]
                /\ resp' = Response("respondRequest", 200, TRUE)
                /\ UNCHANGED <<users, posts, comments, reactions,
                               reactionSeq, friendshipSeq>>
           ELSE /\ resp' = Response("respondRequest", 400, FALSE)
                /\ UNCHANGED <<db, reactionSeq, friendshipSeq>>

\* Mutant: the request is found from either of its ends.
RespondRequestEitherEnd(token, requesterId, action) ==
  IF ~Authorized(token)
  THEN /\ resp' = Unauthorized("respondRequest")
       /\ UNCHANGED <<db, reactionSeq, friendshipSeq>>
  ELSE LET currentUserId == extractJWT(token)._id
           requestIndex == FindIndex(friendships, {fs \in Range(friendships) :
                             /\ \/ fs.from = requesterId /\ fs.to = currentUserId
                                \/ fs.to = requesterId /\ fs.from = currentUserId
                             /\ fs.status = "PENDING"})
       IN  IF requestIndex = 0
           THEN /\ resp' = Response("respondRequest", 404, FALSE)
                /\ UNCHANGED <<db, reactionSeq, friendshipSeq>>
           ELSE IF action = "ACCEPT"
           THEN /\ friendships' = [friendships EXCEPT ![requestIndex].status = "ACCEPTED"]
                /\ resp' = Response("respondRequest", 200, TRUE)
                /\ UNCHANGED <<users, posts, comments, reactions,
                               reactionSeq, friendshipSeq>>
           ELSE IF action = "DECLINE"
           THEN /\ friendships' = RemoveAt(friendships, requestIndex)
                /\ resp' = Response("respondRequest", 200, TRUE)
                /\ UNCHANGED <<users, posts, comments, reactions,
                               reactionSeq, friendshipSeq>>
           ELSE /\ resp' = Response("respondRequest", 400, FALSE)
                /\ UNCHANGED <<db, reactionSeq, friendshipSeq>>

\* PUT /api/friends/requests/:requesterId?action=...
RespondRequest(token, requesterId, action) ==
  IF ~Authorized(token)
  THEN /\ resp' = Unauthorized("respondRequest")
       /\ UNCHANGED <<db, reactionSeq, friendshipSeq>>
  ELSE LET currentUserId == extractJWT(token)._id
           requestIndex == FindIndex(friendships, {fs \in Range(friendships) :
                             fs.from = requesterId /\ fs.to = currentUserId
                               /\ fs.status = "PENDING"})
       IN  IF requestIndex = 0
           THEN /\ resp' = Response("respondRequest", 404, FALSE)
                /\ UNCHANGED <<db, reactionSeq, friendshipSeq>>
           ELSE IF action = "ACCEPT"
           THEN /\ friendships' = [friendships EXCEPT ![requestIndex].status = "ACCEPTED"]
                /\ resp' = Response("respondRequest", 200, TRUE)
                /\ UNCHANGED <<users, posts, comments, reactions,
                               reactionSeq, friendshipSeq>>
           ELSE IF action = "DECLINE"
           THEN /\ friendships' = RemoveAt(friendships, requestIndex)
                /\ resp' = Response("respondRequest", 200, TRUE)
                /\ UNCHANGED <<users, posts, comments, reactions,
                               reactionSeq, friendshipSeq>>
           ELSE /\ resp' = Response("respondRequest", 400, FALSE)
                /\ UNCHANGED <<db, reactionSeq, friendshipSeq>>

\* DELETE /api/friends/requests/:recipientId
CancelRequest(token, recipientId) ==
  IF ~Authorized(token)
  THEN /\ resp' = Unauthorized("cancelRequest")
       /\ UNCHANGED <<db, reactionSeq, friendshipSeq>>
  ELSE LET currentUserId == extractJWT(token)._id
           requestIndex == FindIndex(friendships, {fs \in Range(friendships) :
                             fs.from = currentUserId /\ fs.to = recipientId
                               /\ fs.status = "PENDING"})
       IN  IF requestIndex = 0
           THEN /\ resp' = Response("cancelRequest", 404, FALSE)
                /\ UNCHANGED <<db, reactionSeq, friendshipSeq>>
           ELSE /\ friendships' = RemoveAt(friendships, requestIndex)
                /\ resp' = Response("cancelRequest", 204, TRUE)
                /\ UNCHANGED <<users, posts, comments, reactions,
                               reactionSeq, friendshipSeq>>

\* Mutant: only the user who sent the request may remove the friendship.
UnfriendSenderOnly(token, friendId) ==
  IF ~Authorized(token)
  THEN /\ resp' = Unauthorized("unfriend")
       /\ UNCHANGED <<db, reactionSeq, friendshipSeq>>
  ELSE LET currentUserId == extractJWT(token)._id
           friendshipIndex == FindIndex(friendships, {fs \in Range(friendships) :
                                /\ fs.from = currentUserId /\ fs.to = friendId
                                /\ fs.status = "ACCEPTED"})
       IN  IF friendshipIndex = 0
           THEN /\ resp' = Response("unfriend", 404, FALSE)
                /\ UNCHANGED <<db, reactionSeq, friendshipSeq>>
           ELSE /\ friendships' = RemoveAt(friendships, friendshipIndex)
                /\ resp' = Response("unfriend", 204, TRUE)
                /\ UNCHANGED <<users, posts, comments, reactions,
                               reactionSeq, friendshipSeq>>

\* DELETE /api/friends/:friendId
Unfriend(token, friendId) ==
  IF ~Authorized(token)
  THEN /\ resp' = Unauthorized("unfriend")
       /\ UNCHANGED <<db, reactionSeq, friendshipSeq>>
  ELSE LET currentUserId == extractJWT(token)._id
           friendshipIndex == FindIndex(friendships, {fs \in Range(friendships) :
                                /\ \/ fs.from = currentUserId /\ fs.to = friendId
                                   \/ fs.to = currentUserId /\ fs.from = friendId
                                /\ fs.status = "ACCEPTED"})
       IN  IF friendshipIndex = 0
           THEN /\ resp' = Response("unfriend", 404, FALSE)
                /\ UNCHANGED <<db, reactionSeq, friendshipSeq>>
           ELSE /\ friendships' = RemoveAt(friendships, friendshipIndex)
                /\ resp' = Response("unfriend", 204, TRUE)
                /\ UNCHANGED <<users, posts, comments, reactions,
                               reactionSeq, friendshipSeq>>

\* ------------------------------------------------------------------ Next
\* Inputs a client can send.
PostCursors == {Absent, GhostId} \cup PostIds
CommentCursors == {Absent, GhostId} \cup CommentIds
Limits == {NoLimit} \cup (0..MaxLimit)
UserRefs == UserIds \cup {GhostId}
PostRefs == PostIds \cup {GhostId}
TargetRefs == PostIds \cup CommentIds \cup {GhostId, Absent}

\* withAuth answers a request without a valid token before the resolver reads
\* anything else of it, so one representative of the other inputs is enough.
With(token, S) == IF Authorized(token) THEN S ELSE {CHOOSE x \in S : TRUE}

RegisterStep ==
  /\ \E e \in EmailInputs : Register(e)
  /\ UNCHANGED inflight

CreatePostStep ==
  /\ \E t \in Tokens : \E c \in With(t, Contents), now \in With(t, Stamps) :
       CreatePost(t, c, now)
  /\ UNCHANGED inflight

CreateCommentStep ==
  /\ \E t \in Tokens :
       \E p \in With(t, PostRefs), c \in With(t, Contents), now \in With(t, Stamps) :
         CreateComment(t, p, c, now)
  /\ UNCHANGED inflight

ReactStep ==
  /\ \E t \in Tokens :
       \E tt \in With(t, TargetTypes), id \in With(t, TargetRefs),
          e \in With(t, EmojiInputs) :
         React(t, tt, id, e)
  /\ UNCHANGED inflight

SendRequestStep ==
  /\ \E t \in Tokens : \E u \in With(t, UserRefs) : SendRequest(t, u)
  /\ UNCHANGED inflight

RespondRequestStep ==
  /\ \E t \in Tokens : \E u \in With(t, UserRefs), a \in With(t, Actions) :
       RespondRequest(t, u, a)
  /\ UNCHANGED inflight

CancelRequestStep ==
  /\ \E t \in Tokens : \E u \in With(t, UserRefs) : CancelRequest(t, u)
  /\ UNCHANGED inflight

UnfriendStep ==
  /\ \E t \in Tokens : \E u \in With(t, UserRefs) : Unfriend(t, u)
  /\ UNCHANGED inflight

GetPostsStep ==
  /\ \E t \in Tokens : \E c \in With(t, PostCursors), l \in With(t, Limits) :
       GetPosts(t, c, l)
  /\ UNCHANGED inflight

GetUserPostsStep ==
  /\ \E t \in Tokens :
       \E u \in With(t, UserRefs), c \in With(t, PostCursors), l \in With(t, Limits) :
         GetUserPosts(t, u, c, l)
  /\ UNCHANGED inflight

GetCommentsStep ==
  /\ \E t \in Tokens :
       \E p \in With(t, PostRefs), c \in With(t, CommentCursors), l \in With(t, Limits) :
         GetComments(t, p, c, l)
  /\ UNCHANGED inflight

\* page: not supplied, negative, first, second.
Pages == {NoPage, -2, 0, 1}

GetFriendsStep ==
  /\ \E t \in Tokens : GetFriends(t)
  /\ UNCHANGED inflight

GetRequestsStep ==
  /\ \E t \in Tokens : GetRequests(t)
  /\ UNCHANGED inflight

GetIncomingStep ==
  /\ \E t \in Tokens : GetIncoming(t)
  /\ UNCHANGED inflight

GetOutgoingStep ==
  /\ \E t \in Tokens : GetOutgoing(t)
  /\ UNCHANGED inflight

GetUsersStep ==
  /\ \E t \in Tokens : \E pg \in With(t, Pages), l \in With(t, Limits) :
       GetUsers(t, pg, l)
  /\ UNCHANGED inflight

LoginStep ==
  /\ \E e \in EmailInputs, p \in Passwords : Login(e, p)
  /\ UNCHANGED inflight

GetMeStep ==
  /\ \E t \in Tokens : GetMe(t)
  /\ UNCHANGED inflight

GetUserStep ==
  /\ \E t \in Tokens : \E u \in With(t, UserRefs) : GetUser(t, u)
  /\ UNCHANGED inflight

UpdateMeStep ==
  /\ \E t \in Tokens : \E b \in With(t, UpdateBodies) : UpdateMe(t, b)
  /\ UNCHANGED inflight

UpdateUserStep ==
  /\ \E t \in Tokens : \E u \in With(t, UserRefs), b \in With(t, UpdateBodies) :
       UpdateUser(t, u, b)
  /\ UNCHANGED inflight

\* The whole server: any request at any time.
Next ==
  \/ RegisterStep
  \/ CreatePostStep
  \/ CreateCommentStep
  \/ ReactStep
  \/ SendRequestStep
  \/ RespondRequestStep
  \/ CancelRequestStep
  \/ UnfriendStep
  \/ GetPostsStep
  \/ GetUserPostsStep
  \/ GetCommentsStep

Spec == Init /\ [][Next]_vars

\* The feed: the listings and every handler that writes a table the candidate
\* sequences are selected from (posts, comments, friendships).
NextFeed ==
  \/ CreatePostStep
  \/ CreateCommentStep
  \/ SendRequestStep
  \/ RespondRequestStep
  \/ CancelRequestStep
  \/ UnfriendStep
  \/ GetPostsStep
  \/ GetUserPostsStep
  \/ GetCommentsStep

SpecFeed == Init /\ [][NextFeed]_vars

\* The writers: every handler that mutates the store.
NextWrites ==
  \/ RegisterStep
  \/ CreatePostStep
  \/ CreateCommentStep
  \/ ReactStep
  \/ SendRequestStep
  \/ RespondRequestStep
  \/ CancelRequestStep
  \/ UnfriendStep

SpecWrites == Init /\ [][NextWrites]_vars

\* The reactions: the upsert and the handlers that create its targets.
NextReact ==
  \/ CreatePostStep
  \/ CreateCommentStep
  \/ ReactStep

SpecReact == Init /\ [][NextReact]_vars

\* The listings over a data.json that may hold orphaned rows.
NextSeed ==
  \/ GetPostsStep
  \/ GetUserPostsStep
  \/ GetCommentsStep
  \/ ReactStep

SpecSeed == SeedInit /\ [][NextSeed]_vars

\* The read path: every listing, and the handlers whose rows they show.
NextRead ==
  \/ CreatePostStep
  \/ CreateCommentStep
  \/ SendRequestStep
  \/ RespondRequestStep
  \/ GetPostsStep
  \/ GetUserPostsStep
  \/ GetCommentsStep
  \/ GetFriendsStep
  \/ GetRequestsStep
  \/ GetIncomingStep
  \/ GetOutgoingStep
  \/ GetUsersStep
  \/ GetMeStep
  \/ GetUserStep
  \/ LoginStep

SpecRead == Init /\ [][NextRead]_vars

\* The friendships: the four handlers that write db.friendships, and register.
NextFriends ==
  \/ RegisterStep
  \/ SendRequestStep
  \/ RespondRequestStep
  \/ CancelRequestStep
  \/ UnfriendStep

SpecFriends == Init /\ [][NextFriends]_vars

\* The users: register and the two profile updates.
\* Profile-update bodies with an "_id" key at most, and with an "email" key
\* at most.
IdBodies == {b \in UpdateBodies : b.email = ""}
EmailBodies == {b \in UpdateBodies : b._id = Absent}

UpdateMeIdStep ==
  /\ \E t \in Tokens : \E b \in With(t, IdBodies) : UpdateMe(t, b)
  /\ UNCHANGED inflight

UpdateUserIdStep ==
  /\ \E t \in Tokens : \E u \in With(t, UserRefs), b \in With(t, IdBodies) :
       UpdateUser(t, u, b)
  /\ UNCHANGED inflight

UpdateMeEmailStep ==
  /\ \E t \in Tokens : \E b \in With(t, EmailBodies) : UpdateMe(t, b)
  /\ UNCHANGED inflight

UpdateUserEmailStep ==
  /\ \E t \in Tokens : \E u \in With(t, UserRefs), b \in With(t, EmailBodies) :
       UpdateUser(t, u, b)
  /\ UNCHANGED inflight

NextUsers ==
  \/ RegisterStep
  \/ UpdateMeIdStep
  \/ UpdateUserIdStep

\* Registration and profile updates that may carry an email.
NextEmails ==
  \/ RegisterStep
  \/ UpdateMeEmailStep
  \/ UpdateUserEmailStep

SpecEmails == Init /\ [][NextEmails]_vars

SpecUsers == Init /\ [][NextUsers]_vars

\* The handlers behind withAuth, called with this token (any other input).
Served(t) ==
  \/ GetMe(t)
  \/ \E b \in UpdateBodies : UpdateMe(t, b)
  \/ \E pg \in Pages, l \in Limits : GetUsers(t, pg, l)
  \/ \E u \in UserRefs : GetUser(t, u)
  \/ \E u \in UserRefs, b \in UpdateBodies : UpdateUser(t, u, b)
  \/ \E c \in PostCursors, l \in Limits : GetPosts(t, c, l)
  \/ \E u \in UserRefs, c \in PostCursors, l \in Limits : GetUserPosts(t, u, c, l)
  \/ \E c \in Contents, now \in Stamps : CreatePost(t, c, now)
  \/ \E p \in PostRefs, c \in CommentCursors, l \in Limits : GetComments(t, p, c, l)
  \/ \E p \in PostRefs, c \in Contents, now \in Stamps : CreateComment(t, p, c, now)
  \/ \E tt \in TargetTypes, id \in TargetRefs, e \in EmojiInputs : React(t, tt, id, e)
  \/ GetFriends(t)
  \/ GetRequests(t)
  \/ GetIncoming(t)
  \/ GetOutgoing(t)
  \/ \E u \in UserRefs : SendRequest(t, u)
  \/ \E u \in UserRefs, a \in Actions : RespondRequest(t, u, a)
  \/ \E u \in UserRefs : CancelRequest(t, u)
  \/ \E u \in UserRefs : Unfriend(t, u)

\* Tokens withAuth turns away: absent, unverifiable, expired.
DeniedTokens == {t \in Tokens : ~Authorized(t)}

DeniedStep ==
  /\ \E t \in DeniedTokens : Served(t)
  /\ UNCHANGED inflight

\* Authentication: requests without a valid token to every handler behind
\* withAuth, next to requests that fill the store.
NextAuth ==
  \/ DeniedStep
  \/ CreatePostStep
  \/ SendRequestStep

SpecAuth == Init /\ [][NextAuth]_vars

\* ----------------------------------------------------------- properties
\* A listing request of an authenticated caller: which listing, whose token,
\* the path parameter (userId / postId; unused by the home feed) and limit.
ValidTokens == {t \in Tokens : Authorized(t)}
ValidLimits == {l \in Limits : LimitValid(l)}

ListingRequests ==
  [kind : {"posts"}, token : ValidTokens, ref : {GhostId}, limit : ValidLimits]
    \cup [kind : {"userPosts"}, token : ValidTokens, ref : UserRefs, limit : ValidLimits]
    \cup [kind : {"comments"}, token : ValidTokens, ref : PostRefs, limit : ValidLimits]

ListingResponse(req, cursor) ==
  CASE req.kind = "posts" -> GetPostsResponse(req.token, cursor, req.limit)
    [] req.kind = "userPosts" ->
         GetUserPostsResponse(req.token, req.ref, cursor, req.limit)
    [] req.kind = "comments" ->
         GetCommentsResponse(req.token, req.ref, cursor, req.limit)

\* The candidate sequence the handler of the request paginates.
Candidate(req) ==
  CASE req.kind = "posts" -> feedPosts(req.token._id)
    [] req.kind = "userPosts" -> userPosts(req.ref)
    [] req.kind = "comments" -> postComments(req.ref)

\* The user-posts handler answers 404 for an unknown user before it selects.
ReachesPaginator(req) == req.kind = "userPosts" => UserExists(req.ref)

AllCursors == {Absent, GhostId} \cup PostIds \cup CommentIds
IdsOf(seq) == [i \in DOMAIN seq |-> seq[i]._id]
IdSet(seq) == {seq[i]._id : i \in DOMAIN seq}
Details(req, item) ==
  IF req.kind = "comments" THEN commentWithDetails(item) ELSE postWithDetails(item)

\* A client walk: fetch, and follow nextCursor while hasMore, at most `fuel`
\* calls.  `ended` tells whether a response without hasMore was reached.
RECURSIVE Walk(_, _, _)
Walk(req, cursor, fuel) ==
  IF fuel = 0 THEN [items |-> <<>>, ended |-> FALSE, calls |-> 0]
  ELSE LET r == ListingResponse(req, cursor)
       IN  IF r.hasMore
           THEN LET rest == Walk(req, r.nextCursor, fuel - 1)
                IN  [items |-> r.items \o rest.items, ended |-> rest.ended,
                     calls |-> rest.calls + 1]
           ELSE [items |-> r.items, ended |-> TRUE, calls |-> 1]

AcceptedBetween(u, v) ==
  \E f \in Range(friendships) :
    /\ f.status = "ACCEPTED"
    /\ (f.from = u /\ f.to = v) \/ (f.from = v /\ f.to = u)

\* C1: for every caller U the home-feed candidate set is exactly U's own posts
\* plus the posts of users V with an ACCEPTED edge between U and V (either
\* direction); a PENDING edge alone does not put V's posts in the feed.
C1_FeedIsOwnPlusAcceptedFriends ==
  \A t \in ValidTokens :
    IdSet(feedPosts(t._id)) =
      {p._id : p \in {q \in Range(posts) :
                        q.author = t._id \/ AcceptedBetween(t._id, q.author)}}

\* C2: with the store unchanged, for each listing and each limit >= 1, the walk
\* from no cursor along nextCursor ends within n + 1 calls (n = candidates)
\* and its pages, concatenated, are the candidate sequence: same items, same
\* order, none repeated, none omitted.
C2_WalkCoversCandidates ==
  \A req \in ListingRequests :
    LET seq == Candidate(req)
        w == Walk(req, Absent, Len(seq) + 1)
    IN  /\ w.ended
        /\ w.items = [i \in DOMAIN seq |-> Details(req, seq[i])]
        /\ \A i, j \in DOMAIN w.items : w.items[i]._id = w.items[j]._id => i = j

\* Reached: a listing answered a page that is not the last one while some
\* candidate sequence needs three calls.
C2_Witness ==
  /\ resp.status = 200 /\ resp.hasMore /\ resp.nextCursor # Null
  /\ \E req \in ListingRequests : Walk(req, Absent, Len(Candidate(req)) + 1).calls >= 3

\* C3: a cursor that is the id of no candidate gets the very response of the
\* same request without cursor, and that response is a success (200) whenever
\* the request is one the handler paginates; never an error for the cursor.
C3_StaleCursorRestarts ==
  \A req \in ListingRequests :
    \A c \in AllCursors \ IdSet(Candidate(req)) :
      /\ ListingResponse(req, c) = ListingResponse(req, Absent)
      /\ ReachesPaginator(req) => ListingResponse(req, c).status = 200

\* Reached: the last response is the first page of a non-empty listing, as
\* answered to a cursor that names a post outside the candidate sequence.
C3_Witness ==
  \E req \in ListingRequests :
    \E c \in PostIds \ IdSet(Candidate(req)) :
      /\ Candidate(req) # <<>>
      /\ resp = ListingResponse(req, c)
      /\ resp.items # <<>>

\* The 7-item example: posts 7 (newest) .. 1 by the first seed user.
SevenPosts ==
  [i \in 1..7 |-> [_id |-> Id("post", 8 - i), author |-> Id("user", 1),
                   createdAt |-> 8 - i]]
SevenPage(cursor) ==
  PageResponse("getPosts", "POST", SevenPosts, cursor, DefaultLimit)

\* C4: with n candidates, start s (0 without cursor, i+1 for the cursor of the
\* item at 0-based index i) and limit L >= 1, the page is the items at indices
\* s .. min(s+L, n)-1, hasMore is n - (s+L) > 0, nextCursor is the id of the
\* page's last item when hasMore and null otherwise; 7 items with limit 5 give
\* items 1-5 / true / id of item 5, then items 6-7 / false / null.
C4_PageSliceHasMoreNextCursor ==
  /\ \A req \in {q \in ListingRequests : ReachesPaginator(q)} :
       LET seq == Candidate(req)
           n == Len(seq)
           L == IF req.limit = NoLimit THEN 5 ELSE req.limit
       IN  \A s \in 0..n :
             LET c == IF s = 0 THEN Absent ELSE seq[s]._id
                 r == ListingResponse(req, c)
                 last == IF s + L < n THEN s + L ELSE n
             IN  /\ r.status = 200
                 /\ Len(r.items) = last - s
                 /\ \A k \in 1..(last - s) : r.items[k] = Details(req, seq[s + k])
                 /\ r.hasMore = (n - (s + L) > 0)
                 /\ r.nextCursor = IF r.hasMore THEN seq[last]._id ELSE Null
  /\ LET first == SevenPage(Absent)
         second == SevenPage(Id("post", 3))
     IN  /\ IdsOf(first.items) = [k \in 1..5 |-> Id("post", 8 - k)]
         /\ first.hasMore /\ first.nextCursor = Id("post", 3)
         /\ IdsOf(second.items) = <<Id("post", 2), Id("post", 1)>>
         /\ ~second.hasMore /\ second.nextCursor = Null

\* Reached: the last response is a second page, cut by the limit, of a
\* listing asked with the cursor its first page returned.
C4_Witness ==
  \E req \in ListingRequests :
    LET seq == Candidate(req)
    IN  /\ Len(seq) >= 3
        /\ req.limit = 1
        /\ resp = ListingResponse(req, seq[1]._id)
        /\ resp.hasMore
        /\ resp.nextCursor = seq[2]._id

NewestFirst(items) ==
  \A i, j \in DOMAIN items : i < j => items[i].createdAt >= items[j].createdAt

\* C5: in every page of the three listings an item never precedes a newer
\* one (a before b implies a.createdAt >= b.createdAt), and the same holds
\* over the consecutive pages of one walk on an unchanged store.
C5_NewestFirst ==
  \A req \in ListingRequests :
    /\ \A c \in AllCursors : NewestFirst(ListingResponse(req, c).items)
    /\ NewestFirst(Walk(req, Absent, Len(Candidate(req)) + 1).items)

\* Reached: a returned page holds two items of different age, newest first,
\* that the table stores in the other order.
C5_Witness ==
  /\ resp.status = 200
  /\ Len(resp.items) >= 2
  /\ resp.items[1].createdAt > resp.items[2].createdAt
  /\ \E i, j \in DOMAIN comments :
       i < j /\ comments[i]._id = resp.items[2]._id /\ comments[j]._id = resp.items[1]._id

\* Position of the row with this id in its table (posts / comments).
TablePos(req, id) ==
  IF req.kind = "comments"
  THEN FindIndex(comments, {c \in Range(comments) : c._id = id})
  ELSE FindIndex(posts, {q \in Range(posts) : q._id = id})

TiesInTableOrder(req) ==
  LET seq == Candidate(req)
  IN  \A i, j \in DOMAIN seq :
        i < j /\ seq[i].createdAt = seq[j].createdAt
          => TablePos(req, seq[i]._id) < TablePos(req, seq[j]._id)

\* C6 as claimed: in all three listings two candidates with the same createdAt
\* appear in the order of their rows in db.posts / db.comments, also a
\* caller's own post and a friend's post in the home feed.
C6_AllTiesInTableOrder == \A req \in ListingRequests : TiesInTableOrder(req)

\* C6 amended: in the user-posts and comments listings ties keep table order;
\* in the home feed, among candidates with the same createdAt, posts of other
\* users precede the caller's own posts and within each of the two groups
\* table order is kept.
C6_TiesKeepScanOrder ==
  \A req \in ListingRequests :
    IF req.kind # "posts" THEN TiesInTableOrder(req)
    ELSE LET seq == Candidate(req)
             me == req.token._id
         IN  \A i, j \in DOMAIN seq :
               i < j /\ seq[i].createdAt = seq[j].createdAt =>
                 /\ ~(seq[i].author = me /\ seq[j].author # me)
                 /\ (seq[i].author = me) = (seq[j].author = me)
                      => TablePos(req, seq[i]._id) < TablePos(req, seq[j]._id)

\* Reached: a home-feed page shows a post of another user ahead of the
\* caller's own post of the same createdAt that db.posts stores first.
C6_Witness ==
  \E t \in ValidTokens :
    /\ resp = GetPostsResponse(t, Absent, NoLimit)
    /\ Len(resp.items) >= 2
    /\ resp.items[1].createdAt = resp.items[2].createdAt
    /\ resp.items[1].author # t._id
    /\ resp.items[2].author = t._id
    /\ TablePos([kind |-> "posts"], resp.items[2]._id)
         < TablePos([kind |-> "posts"], resp.items[1]._id)

\* The item, or a reaction attached to it, names an author outside db.users.
HasOrphan(req, item) ==
  \/ item.author \notin UserIds
  \/ \E r \in Range(reactions) :
       /\ r.targetType = (IF req.kind = "comments" THEN "COMMENT" ELSE "POST")
       /\ r.targetId = item._id
       /\ r.author \notin UserIds

\* C7: a listing whose page holds an item with an unknown author, or with a
\* reaction of an unknown author, still answers 200 with a well-formed page
\* (that author embedded as null); it answers no error.
C7_OrphanAuthorsTolerated ==
  \A req \in {q \in ListingRequests : ReachesPaginator(q)} :
    \A c \in AllCursors :
      LET page == AfterCursor(Candidate(req), c, EffectiveLimit(req.limit))
      IN  (\E i \in DOMAIN page : HasOrphan(req, page[i]))
            => /\ ListingResponse(req, c).status = 200
               /\ Len(ListingResponse(req, c).items) = Len(page)

SameTriple(r, q) ==
  r.targetType = q.targetType /\ r.targetId = q.targetId /\ r.author = q.author

\* C8: the reactions table never holds two reactions of one author on one
\* target (targetType, targetId), whatever requests were served.
C8_OneReactionPerTriple ==
  \A i, j \in DOMAIN reactions : SameTriple(reactions[i], reactions[j]) => i = j

\* Reached: two users react on one target after an earlier reaction was
\* toggled off and made again.
C8_Witness ==
  /\ resp.op = "react" /\ resp.status = 200
  /\ reactionSeq > Len(reactions)
  /\ \E i, j \in DOMAIN reactions :
       /\ i # j
       /\ reactions[i].targetType = reactions[j].targetType
       /\ reactions[i].targetId = reactions[j].targetId

\* The effect C9 describes for an accepted reaction request of author a.
UpsertEffect(a, tt, id, e) ==
  LET mine == {i \in DOMAIN reactions :
                 /\ reactions[i].targetType = tt
                 /\ reactions[i].targetId = id
                 /\ reactions[i].author = a}
      n == Len(reactions)
  IN  IF mine = {}
      THEN /\ Len(reactions') = n + 1
           /\ SubSeq(reactions', 1, n) = reactions
           /\ reactions'[n + 1].targetType = tt
           /\ reactions'[n + 1].targetId = id
           /\ reactions'[n + 1].author = a
           /\ reactions'[n + 1].emoji = e
           /\ \A k \in 1..n : reactions[k]._id # reactions'[n + 1]._id
      ELSE \E i \in mine :
             IF reactions[i].emoji = e
             THEN /\ Len(reactions') = n - 1
                  /\ \A k \in 1..(n - 1) :
                       reactions'[k] = reactions[IF k < i THEN k ELSE k + 1]
             ELSE /\ Len(reactions') = n
                  /\ reactions'[i] = [reactions[i] EXCEPT !.emoji = e]
                  /\ reactions'[i]._id = reactions[i]._id
                  /\ \A k \in 1..n : k # i => reactions'[k] = reactions[k]

\* C9: a reaction request of user R on target T with emoji e that is served
\* (200) appends a reaction when R has none on T, removes R's reaction when it
\* already has emoji e, and otherwise replaces its emoji by e in place (same
\* id, same position); every other reaction stays as it was.
C9_UpsertAppendsTogglesOrUpdates ==
  [][(resp'.op = "react" /\ resp'.status = 200) =>
       \A t \in ValidTokens, tt \in {"POST", "COMMENT"},
          id \in TargetRefs \ {Absent}, e \in Emojis :
         React(t, tt, id, e) => UpsertEffect(t._id, tt, id, e)]_vars

\* Reached: a served reaction request left fewer rows than were ever made
\* (a toggle-off) next to a reaction with the second emoji.
C9_Witness ==
  /\ resp.op = "react" /\ resp.status = 200
  /\ reactionSeq > Len(reactions)
  /\ \E r \in Range(reactions) : r.emoji = "love"

EdgeBetween(u, v) ==
  \E f \in Range(friendships) :
    (f.from = u /\ f.to = v) \/ (f.from = v /\ f.to = u)

\* C10: the friendship table never holds two edges for one unordered pair of
\* users, and a send-request between a pair that has an edge (PENDING or
\* ACCEPTED, either direction) is answered 400.
C10_OneEdgePerPair ==
  /\ \A i, j \in DOMAIN friendships :
       {friendships[i].from, friendships[i].to}
         = {friendships[j].from, friendships[j].to} => i = j
  /\ \A t \in ValidTokens, u \in UserRefs :
       EdgeBetween(t._id, u) => sendRequestStatus(t._id, u) = 400

\* Reached: a send-request was answered 400 while the table holds an
\* ACCEPTED and a PENDING edge.
C10_Witness ==
  /\ resp.op = "sendRequest" /\ resp.status = 400
  /\ \E f, g \in Range(friendships) : f.status = "ACCEPTED" /\ g.status = "PENDING"


\* ------------------------------------------------- requests in flight
\* A handler is an async function: it runs synchronously from one await to
\* the next, and other requests run while it is suspended.  A listing request
\* is suspended, in turn, in the global delay (http.all("*")), in withAuth's
\* extractJWT, in the resolver's own extractJWT (home feed only) and in
\* cursorPaginationSchema.validate; `pc` names the await it is suspended in.
\* `arrived` is the number of rows created before the request came in.
AwaitsOf(kind) ==
  IF kind = "posts" THEN <<"delay", "withAuth", "extractJWT", "validate">>
  ELSE <<"delay", "withAuth", "validate">>

NextAwait(kind, pc) ==
  LET a == AwaitsOf(kind)
      i == CHOOSE k \in DOMAIN a : a[k] = pc
  IN  a[i + 1]

Pending == {r \in inflight : r.pc # "responded"}

RequestOf(r) == [kind |-> r.kind, token |-> r.token, ref |-> r.ref, limit |-> r.limit]

\* The listing requests a client sends while others are in flight: with or
\* without a token, with and without a cursor and a limit.
AsyncTokens == ValidTokens \cup {[kind |-> "none", _id |-> GhostId]}
AsyncLimits == {NoLimit, 1}
Requests ==
  UNION {[kind : {"posts"}, token : {t}, ref : {GhostId},
          cursor : With(t, {Absent} \cup PostIds), limit : With(t, AsyncLimits)]
           \cup [kind : {"userPosts"}, token : {t}, ref : With(t, UserRefs),
                  cursor : With(t, {Absent} \cup PostIds), limit : With(t, AsyncLimits)]
           \cup [kind : {"comments"}, token : {t}, ref : With(t, PostRefs),
                  cursor : With(t, {Absent} \cup CommentIds),
                  limit : With(t, AsyncLimits)] :
         t \in AsyncTokens}

\* `held` is what the handler has read from the store and keeps in a local
\* across an await.
Receive(q) ==
  /\ Cardinality(Pending) < MaxInFlight
  /\ inflight' = Pending \cup
       {[kind |-> q.kind, token |-> q.token, ref |-> q.ref, cursor |-> q.cursor,
         limit |-> q.limit, pc |-> "delay", arrived |-> Rows, held |-> <<>>]}
  /\ UNCHANGED <<db, reactionSeq, friendshipSeq, resp>>

\* Mutant: the page is spliced out of db.posts instead of sliced from a copy.
AnswerConsuming(r, response) ==
  LET taken == {response.items[i]._id : i \in DOMAIN response.items}
  IN  /\ resp' = response
      /\ inflight' = (Pending \ {r}) \cup {[r EXCEPT !.pc = "responded"]}
      /\ posts' = SelectSeq(posts, LAMBDA p : p._id \notin taken)
      /\ UNCHANGED <<users, comments, reactions, friendships, reactionSeq, friendshipSeq>>

\* The response is sent: the request leaves the pending ones; the record of
\* the last answered request is kept until the next request comes in.
Answer(r, response) ==
  /\ resp' = response
  /\ inflight' = (Pending \ {r}) \cup {[r EXCEPT !.pc = "responded"]}
  /\ UNCHANGED <<db, reactionSeq, friendshipSeq>>

Suspend(r, pc) ==
  /\ inflight' = (inflight \ {r}) \cup {[r EXCEPT !.pc = pc]}
  /\ UNCHANGED <<db, reactionSeq, friendshipSeq, resp>>

\* Mutant: the handler selects its candidates, awaits once more, and only
\* then slices and enriches what it selected.
AfterValidateYielding(r) ==
  LET q == RequestOf(r)
  IN  IF ~LimitValid(r.limit) \/ ~ReachesPaginator(q)
      THEN Answer(r, ListingResponse(q, r.cursor))
      ELSE IF r.held = <<>> /\ Candidate(q) # <<>>
      THEN /\ inflight' = (inflight \ {r}) \cup {[r EXCEPT !.held = Candidate(q)]}
           /\ UNCHANGED <<db, reactionSeq, friendshipSeq, resp>>
      ELSE Answer(r, PageResponse(ListingResponse(q, r.cursor).op,
                                  IF r.kind = "comments" THEN "COMMENT" ELSE "POST",
                                  r.held, r.cursor, EffectiveLimit(r.limit)))

\* The code after the last await, up to the return: validation outcome,
\* selection, sort, slice, enrichment and response, with no await between.
AfterValidate(r) == Answer(r, ListingResponse(RequestOf(r), r.cursor))

\* The event loop resumes a suspended request: it runs to its next await or
\* to its return.
Resume(r) ==
  /\ r \in Pending
  /\ IF r.pc = "withAuth" /\ ~Authorized(r.token)
     THEN Answer(r, ListingResponse(RequestOf(r), r.cursor))
     ELSE IF r.pc = "validate"
     THEN AfterValidate(r)
     ELSE Suspend(r, NextAwait(r.kind, r.pc))

ReceiveStep == \E q \in Requests : Receive(q)
ResumeStep == \E r \in inflight : Resume(r)

\* Listings suspended at their awaits while other requests create posts.
NextAsync ==
  \/ ReceiveStep
  \/ ResumeStep
  \/ CreatePostStep

SpecAsync == Init /\ [][NextAsync]_vars

\* -------------------------------------------- mutating requests in flight
\* The awaits of a mutating handler, in order.  POST /api/reactions and POST
\* /api/friends/requests: the global delay, withAuth's extractJWT, then
\* request.json() and the resolver's extractJWT; everything after that, the
\* existence check and the write included, is synchronous.  POST
\* /api/auth/register: the global delay, request.json() and
\* registerSchema.validate, then the lookup and the push, and one more await
\* (SignJWT ... sign) before the response.
WriteAwaitsOf(kind) ==
  IF kind = "register" THEN <<"delay", "json", "validate">>
  ELSE <<"delay", "withAuth", "json", "extractJWT">>

LastAwait(kind) == WriteAwaitsOf(kind)[Len(WriteAwaitsOf(kind))]

NextWriteAwait(kind, pc) ==
  LET a == WriteAwaitsOf(kind)
      i == CHOOSE k \in DOMAIN a : a[k] = pc
  IN  a[i + 1]

\* The target of the reaction requests: the handler never looks it up.
WriteTarget == Id("post", 1)
NoToken == [kind |-> "none", _id |-> GhostId]

\* The mutating requests clients send while others are in flight: reactions
\* of either user on one target, friend requests between the users (and to
\* oneself), registrations with a free and with a taken email.
WriterTokens == {t \in ValidTokens : t._id \in IdSet(SeedUsers)}
WriteRequests ==
  [kind : {"react"}, token : WriterTokens, ref : {WriteTarget}, emoji : Emojis,
   email : {""}]
    \cup [kind : {"sendRequest"}, token : WriterTokens, ref : IdSet(SeedUsers),
           emoji : {""}, email : {""}]
    \cup [kind : {"sendRequest"}, token : {NoToken}, ref : {GhostId},
           emoji : {""}, email : {""}]
    \cup [kind : {"register"}, token : {NoToken}, ref : {GhostId}, emoji : {""},
           email : {"a@x", "c@x"}]

\* `slot` tells apart two requests with the same content.
ReceiveWrite(q) ==
  /\ Cardinality(Pending) < MaxWriters
  /\ LET free == {n \in 1..MaxWriters : \A r \in Pending : r.slot # n}
         n == CHOOSE k \in free : \A j \in free : k <= j
     IN  inflight' = Pending \cup
           {[kind |-> q.kind, token |-> q.token, ref |-> q.ref, emoji |-> q.emoji,
             email |-> q.email, slot |-> n, pc |-> "delay", held |-> <<>>]}
  /\ UNCHANGED <<db, reactionSeq, friendshipSeq, resp>>

\* The response is sent: the request is no longer in flight.
Answered(r) == inflight' = inflight \ {r}

\* The handler of the request, run from its last await to its return.
HandlerOf(r) ==
  CASE r.kind = "react" -> React(r.token, "POST", r.ref, r.emoji)
    [] r.kind = "sendRequest" -> SendRequest(r.token, r.ref)
    [] r.kind = "register" -> Register(r.email)

\* Mutant: the reaction handler awaits between its findIndex and its write,
\* and writes by the index it found before the await.
RunWriteCheckThenAwait(r) ==
  IF r.kind # "react" \/ ~UserExists(r.token._id)
  THEN HandlerOf(r) /\ Answered(r)
  ELSE IF r.held = <<>>
  THEN /\ inflight' = (inflight \ {r}) \cup
            {[r EXCEPT !.held =
                <<existingReactionIndex("POST", r.ref, findUser(r.token._id)._id)>>]}
       /\ UNCHANGED <<db, reactionSeq, friendshipSeq, resp>>
  ELSE LET i == r.held[1]
       IN  IF i > Len(reactions)
           THEN /\ resp' = Response("react", 500, FALSE)
                /\ Answered(r)
                /\ UNCHANGED <<db, reactionSeq, friendshipSeq>>
           ELSE /\ i = 0 => CanCreate
                /\ reactions' =
                     IF i = 0
                     THEN Append(reactions,
                            [_id |-> Id("reaction", reactionSeq + 1),
                             targetType |-> "POST", targetId |-> r.ref,
                             emoji |-> r.emoji, author |-> r.token._id])
                     ELSE IF reactions[i].emoji = r.emoji THEN RemoveAt(reactions, i)
                     ELSE [reactions EXCEPT ![i].emoji = r.emoji]
                /\ reactionSeq' = IF i = 0 THEN reactionSeq + 1 ELSE reactionSeq
                /\ resp' = Response("react", 200, TRUE)
                /\ Answered(r)
                /\ UNCHANGED <<users, posts, comments, friendships, friendshipSeq>>

\* The code after the last await.  Reactions and friend requests: check,
\* write and return.  Register: a rejection is thrown and answered; else
\* the user is pushed and saved and the handler awaits the signing of the
\* access token before it answers.
RunWrite(r) ==
  IF r.kind = "register" /\ r.email \in Emails
       /\ ~\E u \in Range(users) : u.email = r.email
  THEN /\ CanCreate
       /\ users' = Append(users, [_id |-> Id("user", Len(users) + 1), email |-> r.email,
                                   password |-> Pass])
       /\ inflight' = (inflight \ {r}) \cup {[r EXCEPT !.pc = "sign"]}
       /\ UNCHANGED <<posts, comments, reactions, friendships,
                      reactionSeq, friendshipSeq, resp>>
  ELSE HandlerOf(r) /\ Answered(r)

\* The event loop resumes a suspended mutating request: it runs to its next
\* await or to its return.
ResumeWrite(r) ==
  /\ r \in Pending
  /\ IF r.pc = "sign"
     THEN /\ resp' = Response("register", 200, TRUE)
          /\ Answered(r)
          /\ UNCHANGED <<db, reactionSeq, friendshipSeq>>
     ELSE IF r.pc = "withAuth" /\ ~Authorized(r.token)
     THEN HandlerOf(r) /\ Answered(r)
     ELSE IF r.pc = LastAwait(r.kind)
     THEN RunWrite(r)
     ELSE Suspend(r, NextWriteAwait(r.kind, r.pc))

ReceiveWriteStep == \E q \in WriteRequests : ReceiveWrite(q)
ResumeWriteStep == \E r \in inflight : ResumeWrite(r)

\* Mutating requests of the same and of different users, interleaved at
\* their awaits.
NextWriters ==
  \/ ReceiveWriteStep
  \/ ResumeWriteStep

SpecWriters == Init /\ [][NextWriters]_vars

\* ------------------------------------------------------- a client walk
\* A client pages through its home feed: it asks for the first page and then,
\* while the last page came with hasMore, for the page after nextCursor.
\* Other requests are served between its fetches.  The session (whose feed,
\* which limit, the cursor to send next and the ids of each page received) is
\* kept with the requests in flight.
\* A data.json with three posts of the two seed users (db.posts is kept newest
\* first by unshift) and one friendship between them.
WalkStamps == {<<1, 1, 1>>, <<1, 1, 0>>, <<1, 0, 0>>, <<0, 0, 0>>}
WalkInit ==
  /\ users = SeedUsers
  /\ \E a \in [1..3 -> IdSet(SeedUsers)], s \in WalkStamps :
       posts = [i \in 1..3 |->
                  [_id |-> Id("post", 4 - i), author |-> a[i], createdAt |-> s[i]]]
  /\ comments = <<>>
  /\ reactions = <<>>
  /\ \E st \in {"PENDING", "ACCEPTED"} :
       friendships = <<[_id |-> Id("friendship", 1), from |-> Id("user", 1),
                        to |-> Id("user", 2), status |-> st]>>
  /\ reactionSeq = 0
  /\ friendshipSeq = 1
  /\ resp = Response("init", 0, FALSE)
  /\ inflight = {}

WalkLimits == {1, 2}

\* GET /api/posts?limit=l
WalkFirst(token, limit) ==
  /\ GetPosts(token, Absent, limit)
  /\ inflight' = {[kind |-> "walk", token |-> token, limit |-> limit,
                   cursor |-> resp'.nextCursor, pages |-> <<IdsOf(resp'.items)>>]}

\* GET /api/posts?cursor=c&limit=l with the nextCursor of the last page
WalkNext(w) ==
  /\ w.cursor # Null
  /\ GetPosts(w.token, w.cursor, w.limit)
  /\ inflight' = {[w EXCEPT !.cursor = resp'.nextCursor,
                            !.pages = Append(w.pages, IdsOf(resp'.items))]}

WalkFirstStep == \E t \in ValidTokens, l \in WalkLimits : WalkFirst(t, l)
WalkNextStep == \E w \in inflight : WalkNext(w)

\* The walk, and the friendship requests served between its fetches (the
\* store is at its row bound: nothing is created).
NextWalk ==
  \/ WalkFirstStep
  \/ WalkNextStep
  \/ RespondRequestStep
  \/ CancelRequestStep
  \/ UnfriendStep

SpecWalk == WalkInit /\ [][NextWalk]_vars

\* The responses of the cursor listings and of all read-path requests.
CursorListingOps == {"getPosts", "getUserPosts", "getComments"}
ReadOps ==
  CursorListingOps \cup {"getFriends", "getRequests", "getIncoming", "getOutgoing", "getUsers"}

\* C11: for a fixed store, listing type, caller, cursor and limit, invoking
\* the listing twice in a row returns identical responses: in the state a
\* listing handler leaves behind, the request it has just answered gets,
\* asked again, the response that is the last one sent.
C11_RepeatedListingIdentical ==
  \A r \in inflight :
    (r.pc = "responded" /\ resp.op \in CursorListingOps) =>
      resp = ListingResponse(RequestOf(r), r.cursor)

\* Reached: the last answered request got a page of a listing that has more
\* to give, and asked again now it gets that very response.
C11_Witness ==
  \E r \in inflight :
    /\ r.pc = "responded"
    /\ resp.op \in CursorListingOps
    /\ resp.hasMore
    /\ resp.items # <<>>
    /\ resp = ListingResponse(RequestOf(r), r.cursor)

\* C12: the read-path requests (home feed, user posts, post comments, friends
\* list, request listings, user listing) leave the five tables unchanged,
\* element order included, and never call saveToStorage.
C12_ReadsLeaveStoreAlone ==
  [][resp'.op \in ReadOps => db' = db /\ ~resp'.saved]_vars

\* Reached: a read request was answered with rows while every table that a
\* listing reads holds rows, two of them comments with different stamps.
C12_Witness ==
  /\ resp.op \in ReadOps
  /\ resp.status = 200
  /\ resp.items # <<>>
  /\ posts # <<>>
  /\ \E i, j \in DOMAIN comments : comments[i].createdAt < comments[j].createdAt

\* C13: when requests interleave at their await points, a listing request
\* computes selection, pagination and enrichment over one store state: a
\* suspended request holds nothing it read from the store, and the step that
\* resumes it after its last await answers it with the listing of the store
\* as it is in that step, which it leaves unchanged.
C13_ListingSeesOneStore ==
  [][\A r \in Pending :
       /\ r.held = <<>>
       /\ (r.pc = "validate" /\ Resume(r)) =>
            /\ [r EXCEPT !.pc = "responded"] \in inflight'
            /\ resp' = ListingResponse(RequestOf(r), r.cursor)
            /\ db' = db]_vars

\* Reached: the last answered listing shows a post that was created while
\* the request was suspended at one of its awaits.
C13_Witness ==
  \E r \in inflight :
    /\ r.pc = "responded"
    /\ resp.op \in CursorListingOps
    /\ resp.status = 200
    /\ resp = ListingResponse(RequestOf(r), r.cursor)
    /\ \E i \in DOMAIN resp.items : \E k \in (r.arrived + 1)..Len(posts) :
         resp.items[i]._id = Id("post", k)

\* C14: for every cursor listing with a non-empty candidate sequence, a
\* cursor equal to the id of the last candidate returns an empty page with
\* hasMore = false and nextCursor = null.
C14_CursorAtLastItemEmptyPage ==
  \A req \in ListingRequests :
    LET seq == Candidate(req)
    IN  seq # <<>> =>
          LET r == ListingResponse(req, seq[Len(seq)]._id)
          IN  /\ r.status = 200
              /\ r.items = <<>>
              /\ ~r.hasMore
              /\ r.nextCursor = Null

\* Reached: the last response is the empty page answered to the cursor of
\* the last of three candidates.
C14_Witness ==
  \E req \in ListingRequests :
    LET seq == Candidate(req)
    IN  /\ Len(seq) = 3
        /\ resp.op \in CursorListingOps
        /\ resp.status = 200
        /\ resp.items = <<>>
        /\ resp = ListingResponse(req, seq[Len(seq)]._id)

EmptyPage(r) == r.status = 200 /\ r.items = <<>> /\ ~r.hasMore /\ r.nextCursor = Null

\* C15 as stated: for every cursor listing, with or without a cursor and for
\* any limit >= 1, an empty candidate sequence yields a successful response
\* with no items, hasMore = false and nextCursor = null.
C15_EmptyCandidatesSucceed ==
  \A req \in ListingRequests : \A c \in AllCursors :
    Candidate(req) = <<>> => EmptyPage(ListingResponse(req, c))

\* C15, amended: an empty candidate sequence yields the successful empty page
\* in the home feed, in the comments listing (of an existing or a missing
\* post) and in the user-posts listing of an existing user; the user-posts
\* listing of a user id that is not in the user table is answered 404.
C15_EmptyCandidatesSucceedForKnownUser ==
  \A req \in ListingRequests : \A c \in AllCursors :
    Candidate(req) = <<>> =>
      IF ReachesPaginator(req)
      THEN EmptyPage(ListingResponse(req, c))
      ELSE ListingResponse(req, c).status = 404

\* Reached: the store holds posts and comments, and the last response is the
\* empty page of a listing without candidates that was asked with a cursor.
C15_Witness ==
  \E req \in ListingRequests : \E c \in AllCursors \ {Absent} :
    /\ posts # <<>>
    /\ comments # <<>>
    /\ Candidate(req) = <<>>
    /\ resp.op \in CursorListingOps
    /\ EmptyPage(resp)
    /\ resp = ListingResponse(req, c)

NoDuplicates(seq) == \A i, j \in DOMAIN seq : seq[i]._id = seq[j]._id => i = j

\* C16: no reachable store holds a friendship edge whose from and to are the
\* same user: a send-request whose target is the caller is answered 400 and
\* adds no edge; consequently no post occurs twice in a home-feed candidate
\* sequence.
C16_NoSelfEdge ==
  /\ [](/\ \A f \in Range(friendships) : f.from # f.to
        /\ \A t \in ValidTokens : NoDuplicates(feedPosts(t._id)))
  /\ [][resp'.op = "sendRequest" =>
         \A t \in ValidTokens :
           SendRequest(t, t._id) => resp'.status = 400 /\ friendships' = friendships]_vars

\* Reached: posts exist, no edge does, and the last send-request was answered
\* 400: with no edge in the table only a request to oneself is rejected.
C16_Witness ==
  /\ resp.op = "sendRequest"
  /\ resp.status = 400
  /\ friendships = <<>>
  /\ posts # <<>>

FriendshipIds(table) == {table[i]._id : i \in DOMAIN table}
EdgeById(table, id) == table[CHOOSE i \in DOMAIN table : table[i]._id = id]

\* C17: a friendship edge is created only as PENDING, its status changes
\* only from PENDING to ACCEPTED (never back), DECLINE and cancel remove the
\* PENDING edge and unfriend removes the ACCEPTED edge from the table; after
\* such a removal no edge for the pair remains and a new request between the
\* same pair, in either direction, succeeds.
C17_EdgeLifecycle ==
  [][friendships' # friendships =>
       /\ \A id \in FriendshipIds(friendships') \ FriendshipIds(friendships) :
            /\ EdgeById(friendships', id).status = "PENDING"
            /\ resp'.op = "sendRequest"
       /\ \A id \in FriendshipIds(friendships') \cap FriendshipIds(friendships) :
            LET old == EdgeById(friendships, id)
                new == EdgeById(friendships', id)
            IN  /\ new.from = old.from /\ new.to = old.to
                /\ new.status # old.status =>
                     /\ old.status = "PENDING" /\ new.status = "ACCEPTED"
                     /\ resp'.op = "respondRequest"
       /\ \A id \in FriendshipIds(friendships) \ FriendshipIds(friendships') :
            LET old == EdgeById(friendships, id)
            IN  /\ \/ resp'.op \in {"respondRequest", "cancelRequest"}
                        /\ old.status = "PENDING"
                   \/ resp'.op = "unfriend" /\ old.status = "ACCEPTED"
                /\ Len(friendships') = Len(friendships) - 1
                /\ \A f \in Range(friendships') :
                     {f.from, f.to} # {old.from, old.to}
                /\ \A u, v \in UserRefs :
                     {u, v} = {old.from, old.to} => sendRequestStatus(u, v)' = 200]_vars

\* Reached: between the two seed users an edge was accepted and removed, a
\* later request between them succeeded, and its edge is the only one.
C17_Witness ==
  /\ Len(users) = Len(SeedUsers)
  /\ resp.op = "sendRequest"
  /\ resp.status = 200
  /\ Len(friendships) = 1
  /\ friendships[1]._id = Id("friendship", 3)
  /\ friendships[1].status = "PENDING"

\* C19: after any sequence of register and profile-update requests (with
\* bodies that pass updateUserSchema) no two rows of the user table have the
\* same id, and a profile update never changes the updated user's id.
C19_UserIdsUniqueAndStable ==
  /\ [](\A i, j \in DOMAIN users : users[i]._id = users[j]._id => i = j)
  /\ [][resp'.op \in {"updateMe", "updateUser"} =>
         /\ Len(users') = Len(users)
         /\ \A i \in DOMAIN users : users'[i]._id = users[i]._id]_vars

C20_ReactionTargetsExist ==
  \A r \in Range(reactions) :
    \/ r.targetType = "POST" /\ r.targetId \in PostIds
    \/ r.targetType = "COMMENT" /\ r.targetId \in CommentIds

\* The ids of the users GET /api/friends lists for the caller.
FriendsListed(token) == IdSet(GetFriendsResponse(token).items)
PostsBy(u) == {p \in Range(posts) : p.author = u}
\* The home-feed candidates of user a hold every post / some post of user b.
FeedShowsAll(a, b) == PostsBy(b) \subseteq Range(feedPosts(a))
FeedShowsSome(a, b) == PostsBy(b) \cap Range(feedPosts(a)) # {}

\* C21: friendship is symmetric once ACCEPTED: B is in A's friends list
\* exactly when A is in B's (and both are when the edge is ACCEPTED), B's
\* posts are in A's home feed exactly when A's posts are in B's, and an
\* unfriend request of either end of an ACCEPTED edge, whoever sent the
\* request, is served and removes the edge.
C21_AcceptedIsSymmetric ==
  /\ [](\A s, t \in ValidTokens :
         /\ (t._id \in FriendsListed(s)) = (s._id \in FriendsListed(t))
         /\ AcceptedBetween(s._id, t._id) =>
              /\ t._id \in FriendsListed(s)
              /\ FeedShowsAll(s._id, t._id)
         /\ (PostsBy(s._id) # {} /\ PostsBy(t._id) # {}) =>
              /\ FeedShowsAll(s._id, t._id) = FeedShowsAll(t._id, s._id)
              /\ FeedShowsSome(s._id, t._id) = FeedShowsSome(t._id, s._id))
  /\ [][resp'.op = "unfriend" =>
         \A t \in ValidTokens, u \in UserIds :
           (AcceptedBetween(t._id, u) /\ Unfriend(t, u)) =>
             /\ resp'.status = 204
             /\ Len(friendships') = Len(friendships) - 1
             /\ \A f \in Range(friendships') : {f.from, f.to} # {t._id, u}]_vars

\* Reached: an ACCEPTED edge links the two seed users, each of them has a
\* post, and the last response is a home-feed page showing both posts.
C21_Witness ==
  /\ \E f \in Range(friendships) : f.status = "ACCEPTED"
  /\ \A u \in UserIds : PostsBy(u) # {}
  /\ resp.op = "getPosts"
  /\ Len(resp.items) = 2
  /\ resp.items[1].author # resp.items[2].author

\* The walk of the comments listing of a post, by a caller with a limit.
CommentsWalk(token, postId, limit) ==
  Walk([kind |-> "comments", token |-> token, ref |-> postId, limit |-> limit],
       Absent, Len(comments) + 1)

\* C22: after any sequence of comment creations, the commentCount of a post
\* listed by the home feed or the user-posts listing equals the number of
\* comments whose post field is that post's id, which is the number of items
\* a walk of that post's comments listing to its end returns.
C22_CommentCountMatchesComments ==
  \A req \in {q \in ListingRequests : q.kind \in {"posts", "userPosts"}} :
    \A c \in PostCursors :
      LET r == ListingResponse(req, c)
      IN  \A i \in DOMAIN r.items :
            /\ r.items[i].commentCount
                 = Cardinality({k \in DOMAIN comments : comments[k].post = r.items[i]._id})
            /\ \A l \in ValidLimits :
                 LET w == CommentsWalk(req.token, r.items[i]._id, l)
                 IN  w.ended /\ Len(w.items) = r.items[i].commentCount

\* Reached: the last response lists a post with two comments, and the walk
\* of its comments one by one needs more than one call.
C22_Witness ==
  /\ resp.op \in {"getPosts", "getUserPosts"}
  /\ resp.status = 200
  /\ \E i \in DOMAIN resp.items :
       /\ resp.items[i].commentCount = 2
       /\ \E t \in ValidTokens : CommentsWalk(t, resp.items[i]._id, 1).calls >= 2

\* C23: for every cursor listing and every validated limit >= 1, whenever
\* hasMore is true the page holds exactly limit items, so nextCursor is the
\* id of a candidate (the page's last item); nextCursor is non-null exactly
\* when hasMore is true, and the handler never reads the last element of an
\* empty page (it answers no 500).
C23_NextCursorWellDefined ==
  \A req \in {q \in ListingRequests : ReachesPaginator(q)} : \A c \in AllCursors :
    LET seq == Candidate(req)
        L == EffectiveLimit(req.limit)
        page == AfterCursor(seq, c, L)
        r == ListingResponse(req, c)
    IN  /\ L >= 1
        /\ hasMore(seq, c, L) => Len(page) = L
        /\ r.status = 200
        /\ r.hasMore =>
             /\ Len(r.items) = L
             /\ r.nextCursor \in IdSet(seq)
             /\ r.nextCursor = r.items[Len(r.items)]._id
        /\ (r.nextCursor # Null) = r.hasMore

\* Reached: the last response is a full page of two items with hasMore, cut
\* from three candidates, and its nextCursor is its second item.
C23_Witness ==
  \E req \in ListingRequests :
    /\ Len(Candidate(req)) = 3
    /\ req.limit = 2
    /\ resp = ListingResponse(req, Absent)
    /\ resp.hasMore
    /\ Len(resp.items) = 2
    /\ resp.nextCursor = resp.items[2]._id

\* What the request does when it runs alone on the store of this moment.
SerialEffect(r) ==
  CASE r.kind = "react" ->
         /\ reactions' = upsertReaction(r.token._id, "POST", r.ref, r.emoji)
         /\ UNCHANGED <<users, posts, comments, friendships>>
    [] r.kind = "sendRequest" ->
         /\ r.ref # r.token._id
         /\ ~EdgeBetween(r.token._id, r.ref)
         /\ friendships' = Append(friendships,
              [_id |-> Id("friendship", friendshipSeq + 1), from |-> r.token._id,
               to |-> r.ref, status |-> "PENDING"])
         /\ UNCHANGED <<users, posts, comments, reactions>>
    [] r.kind = "register" ->
         /\ \A u \in Range(users) : u.email # r.email
         /\ users' = Append(users, [_id |-> Id("user", Len(users) + 1),
                                    email |-> r.email, password |-> Pass])
         /\ UNCHANGED <<posts, comments, reactions, friendships>>

C25_WalkNeverRepeatsAPost ==
  \A w \in inflight :
    \A i, j \in DOMAIN w.pages :
      i # j => Range(w.pages[i]) \cap Range(w.pages[j]) = {}

PendingEdges == {f \in Range(friendships) : f.status = "PENDING"}

\* C26: a PENDING edge from A to B is turned ACCEPTED or declined only by a
\* respond request whose caller is B, and cancelled only by a cancel request
\* whose caller is A; a respond request of A on its own outgoing request, or
\* of a user who has no PENDING request from the named requester, is
\* answered 404 and leaves the friendship table unchanged.
C26_OnlyRecipientRespondsOnlySenderCancels ==
  [][\A f \in PendingEdges :
       /\ f \notin Range(friendships') =>
            \/ /\ resp'.op = "respondRequest"
               /\ \E a \in {"ACCEPT", "DECLINE"} :
                    RespondRequest([kind |-> "valid", _id |-> f.to], f.from, a)
            \/ /\ resp'.op = "cancelRequest"
               /\ CancelRequest([kind |-> "valid", _id |-> f.from], f.to)
       /\ \A t \in ValidTokens, u \in UserRefs, a \in Actions :
            (t._id # f.to /\ RespondRequest(t, u, a)) =>
              /\ f \in Range(friendships')
              /\ (t._id = f.from /\ u \in {f.from, f.to}) =>
                   resp'.status = 404 /\ friendships' = friendships
              /\ (\A g \in PendingEdges : ~(g.from = u /\ g.to = t._id)) =>
                   resp'.status = 404 /\ friendships' = friendships
       /\ \A t \in ValidTokens, u \in UserRefs :
            (t._id # f.from /\ CancelRequest(t, u)) => f \in Range(friendships')]_vars

\* Reached: three users are registered, a PENDING edge stands, and the last
\* respond request was answered 404.
C26_Witness ==
  /\ Len(users) = 3
  /\ PendingEdges # {}
  /\ resp.op = "respondRequest"
  /\ resp.status = 404

\* The responses of the mutating handlers, and the statuses of success.
WriteOps ==
  {"register", "createPost", "createComment", "react", "sendRequest",
   "respondRequest", "cancelRequest", "unfriend"}
SuccessStatuses == {200, 204}

\* C27: every mutating request that is answered with a non-success status
\* (friend request to self or to a pair with an edge; accept, decline,
\* cancel, unfriend of a missing edge; an invalid action; a reaction with an
\* invalid targetType or without targetId or emoji; a post or a comment
\* without content; a comment on a missing post; register with a taken
\* email) leaves the five tables unchanged and does not call saveToStorage.
C27_RejectedWritesChangeNothing ==
  [][(resp'.op \in WriteOps /\ resp'.status \notin SuccessStatuses) =>
       db' = db /\ ~resp'.saved]_vars

\* Reached: the store holds a post and a comment, and the last request, a
\* comment on a post that does not exist, was answered 404.
C27_Witness ==
  /\ posts # <<>>
  /\ comments # <<>>
  /\ resp.op = "createComment"
  /\ resp.status = 404

\* The responses whose items are user objects.
UserOps == {"login", "getMe", "getUser", "getUsers", "getFriends"}

\* C29: no response contains the password field of a user: the user of the
\* login, current-user and profile responses, the users of the user listing
\* and of the friends list, and the requester / recipient embedded in the
\* incoming / outgoing request listings are all free of it.
C29_NoPasswordInResponses ==
  /\ resp.op \in UserOps =>
       \A i \in DOMAIN resp.items : "password" \notin DOMAIN resp.items[i]
  /\ resp.op = "getIncoming" =>
       \A i \in DOMAIN resp.items : "password" \notin DOMAIN resp.items[i].requester
  /\ resp.op = "getOutgoing" =>
       \A i \in DOMAIN resp.items : "password" \notin DOMAIN resp.items[i].recipient

\* C28: every handler behind withAuth, called without access token, with a
\* token that fails verification or with an expired one, answers 401 and
\* its resolver does not run: the store is unchanged, nothing is saved and
\* the response carries no store data.
C28_DeniedWithoutToken ==
  [][\/ /\ resp'.status = 401
         /\ db' = db
         /\ ~resp'.saved
         /\ resp'.items = <<>> /\ ~resp'.hasMore /\ resp'.nextCursor = Null
      \/ \A t \in DeniedTokens : ~Served(t)]_vars

\* Reached: the store holds posts and a friendship, and the last request, a
\* read of store data, was answered 401.
C28_Witness ==
  /\ posts # <<>>
  /\ friendships # <<>>
  /\ resp.status = 401
  /\ resp.op \in ReadOps \cup {"getMe", "getUser"}

\* C30: after any sequence of register and profile-update requests no two
\* rows of the user table hold the same email, and a register request with
\* an email some user already holds is answered 400 and adds no user.
C30_EmailsUnique ==
  /\ [](\A i, j \in DOMAIN users : users[i].email = users[j].email => i = j)
  /\ [][\A e \in Emails :
          (Register(e) /\ \E u \in Range(users) : u.email = e) =>
            resp'.status = 400 /\ users' = users]_vars
====
